---------------------------- MODULE Spec2Model ----------------------------
(***************************************************************************)
(* Feedback analytics engine of the desk-booking application               *)
(* (src/app/analytics.py, class FeedbackTopicExtractor).                   *)
(*                                                                         *)
(* Representation choices                                                  *)
(*  - A Python float is an exact rational <<n, d>> with d > 0 in lowest    *)
(*    terms; np.log(x) is kept symbolically as its argument x, and the     *)
(*    comparisons the code makes on logarithms are decided exactly.        *)
(*    The combined sentiment score, which the code compares with the       *)
(*    literals -0.5, -0.3, -0.2, 0 and 0.3, carries a third component: the *)
(*    sign of the double-precision rounding error (RoundingError), which   *)
(*    decides those comparisons where the exact value equals the literal.  *)
(*    Every other double is its exact value: sums such as an urgency of    *)
(*    45 + 5 can differ from it in the last place in the code.             *)
(*  - An optional value (None or v) is the set {} or {v}.                  *)
(*  - A comment text is a sequence of lexemes: raw words and punctuation   *)
(*    marks; whitespace separates words, a punctuation mark is attached    *)
(*    to the word before it.                                               *)
(*  - A dict whose iteration order the code observes is a sequence of      *)
(*    <<key, value>> pairs in insertion order.                             *)
(*  - np.std is kept as the variance it is the root of.                    *)
(*  - An analysed item carries the fields the analysis computes; its       *)
(*    summary string and the display fields copied from the row            *)
(*    (is_reviewed, created_at, desk_number, building_name, dienst_naam)   *)
(*    are left out.                                                        *)
(***************************************************************************)
EXTENDS Integers, Sequences, FiniteSets, TLC

VARIABLES
    extractor,      \* the FeedbackTopicExtractor instance: configuration and idf_scores
    last_feedback_list,  \* the batch given to the latest analyze_feedback_batch call, as the call left it
    result,         \* what that call returned
    outcome,        \* "idle" before the first call, then how the latest call ended
    repeated,       \* history: the latest call was given the same batch as the call before it
    stale,          \* history: the latest call found idf_scores of another batch in the analyzer
    probe           \* one application of the per-item or corpus functions

vars == <<extractor, last_feedback_list, result, outcome, repeated, stale, probe>>

-----------------------------------------------------------------------------
(* Optional values *)

None == {}

Some(v) == {v}

Val(o) == CHOOSE v \in o : TRUE

-----------------------------------------------------------------------------
(* Exact rationals for Python floats *)

Abs(x) == IF x < 0 THEN -x ELSE x

RECURSIVE GCD(_, _)
GCD(a, b) == IF b = 0 THEN a ELSE GCD(b, a % b)

Rat(n, d) ==
    LET g == GCD(Abs(n), Abs(d))
        s == IF d < 0 THEN -1 ELSE 1
    IN  <<(s * n) \div g, (s * d) \div g>>

RInt(n) == <<n, 1>>

RAdd(a, b) == Rat(a[1] * b[2] + b[1] * a[2], a[2] * b[2])

RSub(a, b) == Rat(a[1] * b[2] - b[1] * a[2], a[2] * b[2])

RMul(a, b) == Rat(a[1] * b[1], a[2] * b[2])

RDiv(a, b) == Rat(a[1] * b[2], a[2] * b[1])

RLt(a, b) == a[1] * b[2] < b[1] * a[2]

RLe(a, b) == a[1] * b[2] <= b[1] * a[2]

RMin(a, b) == IF RLt(b, a) THEN b ELSE a

RMax(a, b) == IF RLt(a, b) THEN b ELSE a

\* A double the code compares with a literal: its exact value <<n, d>> followed
\* by the sign of what the double-precision evaluation added to it
Float(r, e) == <<r[1], r[2], e>>

\* x < lit and x > lit on doubles, lit being represented exactly
FLt(x, lit) == RLt(x, lit) \/ (~RLt(lit, x) /\ x[3] < 0)

FGt(x, lit) == RLt(lit, x) \/ (~RLt(x, lit) /\ x[3] > 0)

\* The exact value a double stands for
Exact(x) == <<x[1], x[2]>>

\* int(x): truncation toward zero
RTrunc(a) == IF a[1] >= 0 THEN a[1] \div a[2] ELSE -((-a[1]) \div a[2])

RECURSIVE Pow(_, _)
Pow(b, e) == IF e = 0 THEN 1 ELSE b * Pow(b, e - 1)

\* A product t * log(x) with t >= 0 rational and x > 0 rational: [t |-> t, x |-> x].
\* Sign of t * log(x).
LogSign(w) ==
    IF w.t[1] = 0 \/ w.x[1] = w.x[2] THEN 0
    ELSE IF w.x[1] > w.x[2] THEN 1 ELSE -1

\* u.t * log(u.x) < v.t * log(v.x), decided on integers:
\* with u.t / v.t = p / q (p, q > 0 coprime), p*log(ux) < q*log(vx) iff ux^p < vx^q.
LogLt(u, v) ==
    IF LogSign(u) # LogSign(v) THEN LogSign(u) < LogSign(v)
    ELSE IF LogSign(u) = 0 THEN FALSE
    ELSE LET r == RDiv(u.t, v.t)
             p == r[1]
             q == r[2]
         IN  Pow(u.x[1], p) * Pow(v.x[2], q) < Pow(v.x[1], q) * Pow(u.x[2], p)

-----------------------------------------------------------------------------
(* Sequence helpers *)

Range(s) == {s[i] : i \in 1..Len(s)}

\* A list comprehension's value as a sequence
List(f) == f \o <<>>

RECURSIVE SumSeq(_)
SumSeq(s) == IF s = <<>> THEN 0 ELSE Head(s) + SumSeq(Tail(s))

\* s[:n]
Take(s, n) == SubSeq(s, 1, IF n < Len(s) THEN n ELSE Len(s))

\* s[:n] in the place of s[-n:]
TakeLast_first(s, n) == SubSeq(s, 1, IF n < Len(s) THEN n ELSE Len(s))

\* s[-n:]
TakeLast(s, n) == SubSeq(s, (IF n < Len(s) THEN Len(s) - n ELSE 0) + 1, Len(s))


\* sorted(s, key=..., reverse=True): descending and stable, Lt(a, b) being key(a) < key(b)
SortDesc(s, Lt(_, _)) ==
    LET n == Len(s)
        pos(i) == 1 + Cardinality({j \in 1..n : Lt(s[i], s[j])})
                    + Cardinality({j \in 1..(i - 1) : ~Lt(s[j], s[i]) /\ ~Lt(s[i], s[j])})
    IN  List([k \in 1..n |-> s[CHOOSE i \in 1..n : pos(i) = k]])

\* The distinct elements of s in the order of their first occurrence
\* (the key order of Counter(s) and of a dict filled from s)
Dedup(s) ==
    LET firsts == {i \in 1..Len(s) : \A j \in 1..(i - 1) : s[j] # s[i]}
        Rank(i) == Cardinality({j \in firsts : j <= i})
    IN  List([k \in 1..Cardinality(firsts) |-> s[CHOOSE i \in firsts : Rank(i) = k]])

Count(s, x) == Cardinality({i \in 1..Len(s) : s[i] = x})

-----------------------------------------------------------------------------
(* Lexicons: class attributes of FeedbackTopicExtractor *)

DUTCH_STOPWORDS ==
    {"de", "het", "een", "en", "van", "in", "op", "te", "voor", "met",
     "is", "zijn", "was", "er", "maar", "om", "aan", "dat", "die", "dit",
     "als", "bij", "dan", "heeft", "hem", "hier", "hun",
     "ik", "je", "kan", "meer", "mijn", "niet", "nog", "nu", "ook", "of",
     "over", "onder", "uit", "want", "waren", "wat", "werd",
     "wie", "wordt", "zeer", "zich", "zo", "zonder", "naar", "door", "moet",
     "kunnen", "hebben", "had", "ben", "bent", "deze", "geen", "geweest",
     "haar", "heel", "iets", "iemand", "kon", "mag",
     "veel", "wel", "worden", "zal", "zelf", "zou"}

POSITIVE_WORDS ==
    {"goed", "geweldig", "uitstekend", "prima", "mooi", "schoon", "fijn",
     "prettig", "comfortabel", "ruim", "stil", "rustig", "tevreden", "perfect",
     "excellent", "aangenaam", "handig", "snel", "helder", "netjes", "proper"}

NEGATIVE_WORDS ==
    {"slecht", "vies", "vuil", "lawaai", "luidruchtig", "klein", "krap",
     "vervelend", "irritant", "traag", "gebrekkig", "kapot", "defect",
     "oncomfortabel", "onhandig", "onprettig", "teleurstellend", "zwak",
     "rommelig", "smerig", "stoffig", "koud", "warm"}

\* The keys of TOPIC_KEYWORDS in the order the dict lists them
TopicOrder ==
    <<"netheid", "wifi", "ruimte", "geluid", "comfort", "faciliteiten",
      "temperatuur", "locatie">>

TOPIC_KEYWORDS ==
    [netheid |-> {"schoon", "vuil", "vies", "netjes", "proper", "smerig", "rommelig", "stoffig"},
     wifi |-> {"wifi", "internet", "verbinding", "netwerk", "langzaam", "snel", "connectie"},
     ruimte |-> {"ruimte", "ruim", "krap", "klein", "groot", "plek", "plaats", "vol"},
     geluid |-> {"stil", "lawaai", "geluid", "rustig", "luidruchtig", "herrie", "geluidsoverlast"},
     comfort |-> {"comfortabel", "stoel", "bureau", "ergonomisch", "zit", "rug", "pijn"},
     faciliteiten |-> {"koffie", "toilet", "printer", "beamer", "apparatuur", "voorzieningen"},
     temperatuur |-> {"warm", "koud", "temperatuur", "airco", "verwarming", "tocht"},
     locatie |-> {"locatie", "bereikbaar", "parkeren", "afstand", "centraal", "ligging"}]

\* critical_topics of calculate_urgency_score
critical_topics == {"wifi", "netheid", "faciliteiten", "comfort", "slecht", "problemen"}

\* The names of the five ratings, in the order the scores dict is built
ScoreTypes == <<"netheid", "wifi", "ruimte", "stilte", "algemeen">>

-----------------------------------------------------------------------------
(* Text *)

\* Punctuation marks: characters that are neither \w nor \s
Punctuation == {",", ".", "!", "?"}

\* str.lower() on the words the model writes with capitals
Lower(w) ==
    CASE w = "Wifi" -> "wifi"
      [] w = "SLECHT" -> "slecht"
      [] w = "Goed" -> "goed"
      [] w = "De" -> "de"
      [] w = "Niet" -> "niet"
      [] OTHER -> w

\* not text: None and "" alike
IsBlank(text) == text = None \/ Val(text) = <<>>

\* Stopwords and short words removed before lowercasing
preprocess_text_filter_first(text) ==
    IF IsBlank(text) THEN <<>>
    ELSE LET IsWord(l) == l \notin Punctuation
             words == SelectSeq(Val(text), IsWord)
             Kept(token) == token \notin DUTCH_STOPWORDS /\ Len(token) > 2
             kept == SelectSeq(words, Kept)
         IN  List([i \in 1..Len(kept) |-> Lower(kept[i])])

preprocess_text(text) ==
    IF IsBlank(text) THEN <<>>
    ELSE LET lowered == List([i \in 1..Len(Val(text)) |-> Lower(Val(text)[i])])
             IsWord(l) == l \notin Punctuation
             tokens == SelectSeq(lowered, IsWord)
             Kept(token) == token \notin DUTCH_STOPWORDS /\ Len(token) > 2
         IN  SelectSeq(tokens, Kept)

-----------------------------------------------------------------------------
(* TF-IDF *)

calculate_tf(tokens) ==
    IF tokens = <<>> THEN <<>>
    ELSE LET keys == Dedup(tokens)
         IN  List([k \in 1..Len(keys) |-> <<keys[k], Rat(Count(tokens, keys[k]), Len(tokens))>>])

\* np.log(num_docs / freq), kept as the argument of the log
IdfValue_smoothed(num_docs, freq) == Rat(num_docs + 1, freq)

IdfValue(num_docs, freq) == Rat(num_docs, freq)

\* The dict token -> log(num_docs / freq)
calculate_idf(min_word_freq, documents) ==
    LET num_docs == Len(documents)
        doc_freq(token) == Cardinality({d \in 1..num_docs : token \in Range(documents[d])})
        seen == UNION {Range(documents[d]) : d \in 1..num_docs}
    IN  IF documents = <<>> THEN <<>>
        ELSE [token \in {t \in seen : doc_freq(t) >= min_word_freq} |->
                 IdfValue(num_docs, doc_freq(token))]

calculate_tfidf(tf, idf) ==
    LET InIdf(e) == e[1] \in DOMAIN idf
        kept == SelectSeq(tf, InIdf)
    IN  List([k \in 1..Len(kept) |-> <<kept[k][1], [t |-> kept[k][2], x |-> idf[kept[k][1]]]>>])

extract_key_phrases(tokens, tfidf, n) ==
    IF tfidf = <<>> THEN <<>>
    ELSE LET ByScore(a, b) == LogLt(a[2], b[2])
             sorted_terms == SortDesc(tfidf, ByScore)
             top == Take(sorted_terms, n)
         IN  List([k \in 1..Len(top) |-> top[k][1]])

-----------------------------------------------------------------------------
(* Sentiment *)

\* A missing rating counted as 0
ValidScores_zeroed(scores) ==
    List([k \in 1..Len(ScoreTypes) |->
        IF scores[ScoreTypes[k]] = None THEN 0 ELSE Val(scores[ScoreTypes[k]])])

\* [s for s in scores.values() if s is not None]
ValidScores(scores) ==
    LET values == List([k \in 1..Len(ScoreTypes) |-> scores[ScoreTypes[k]]])
        Given(o) == o # None
        given == SelectSeq(values, Given)
    IN  List([k \in 1..Len(given) |-> Val(given[k])])

\* Thresholds that include their bound
_sentiment_label_inclusive(score) ==
    IF ~FLt(score, Rat(3, 10)) THEN "positief"
    ELSE IF ~FGt(score, Rat(-3, 10)) THEN "negatief"
    ELSE "neutraal"

_sentiment_label(score) ==
    IF FGt(score, Rat(3, 10)) THEN "positief"
    ELSE IF FLt(score, Rat(-3, 10)) THEN "negatief"
    ELSE "neutraal"

\* 0.4 * t + 0.6 * s in double precision, for t = k/n with n <= 4 tokens and
\* s = (mean - 3) / 2 with the mean of up to five ratings 1..5: the operand
\* pairs whose exact result is one of -0.5, -0.3, -0.2, 0, 0.3 while the double
\* computed lies below (-1) or above (1) the double of that literal.  For
\* every other pair the double compares with these literals as the exact
\* value does.
RoundingError(t, s) ==
    LET below == {
            <<<<-1, 1>>, <<-1, 6>>>>, <<<<-1, 1>>, <<1, 3>>>>, <<<<-1, 1>>, <<2, 3>>>>,
            <<<<-3, 4>>, <<0, 1>>>>, <<<<-3, 4>>, <<1, 2>>>>, <<<<-3, 4>>, <<1, 1>>>>,
            <<<<-1, 2>>, <<-1, 6>>>>, <<<<-1, 2>>, <<1, 3>>>>, <<<<-1, 4>>, <<-1, 6>>>>,
            <<<<-1, 4>>, <<2, 3>>>>, <<<<1, 4>>, <<-1, 6>>>>, <<<<1, 4>>, <<1, 3>>>> }
        above == {
            <<<<-1, 2>>, <<5, 6>>>>, <<<<-1, 4>>, <<-1, 3>>>>, <<<<-1, 4>>, <<1, 6>>>>,
            <<<<0, 1>>, <<-1, 3>>>>, <<<<1, 4>>, <<-2, 3>>>>, <<<<1, 4>>, <<-1, 2>>>>,
            <<<<1, 2>>, <<-2, 3>>>>, <<<<1, 2>>, <<-1, 3>>>>, <<<<1, 2>>, <<1, 6>>>>,
            <<<<3, 4>>, <<-1, 1>>>>, <<<<3, 4>>, <<-5, 6>>>>, <<<<3, 4>>, <<-1, 2>>>>,
            <<<<3, 4>>, <<0, 1>>>>, <<<<1, 1>>, <<-1, 1>>>>, <<<<1, 1>>, <<-2, 3>>>> }
    IN  IF <<t, s>> \in below THEN -1
        ELSE IF <<t, s>> \in above THEN 1
        ELSE 0

\* Text sentiment scaled by the number of tokens
NormalizedTextSentiment_raw(text_sentiment, n_tokens) == RInt(text_sentiment)

NormalizedTextSentiment(text_sentiment, n_tokens) ==
    IF n_tokens > 0 THEN Rat(text_sentiment, n_tokens) ELSE RInt(0)

extract_sentiment(text, scores) ==
    LET tokens == preprocess_text(text)
        token_set == Range(tokens)
        positive_count == Cardinality(token_set \cap POSITIVE_WORDS)
        negative_count == Cardinality(token_set \cap NEGATIVE_WORDS)
        valid_scores == ValidScores(scores)
        avg_score == IF valid_scores # <<>>
                     THEN Rat(SumSeq(valid_scores), Len(valid_scores))
                     ELSE RInt(3)
        text_sentiment == positive_count - negative_count
        text_sentiment_normalized == NormalizedTextSentiment(text_sentiment, Len(tokens))
        score_sentiment_normalized == RDiv(RSub(avg_score, RInt(3)), RInt(2))
        combined_sentiment ==
            Float(RAdd(RMul(Rat(4, 10), text_sentiment_normalized),
                       RMul(Rat(6, 10), score_sentiment_normalized)),
                  RoundingError(text_sentiment_normalized, score_sentiment_normalized))
    IN  [sentiment_score |-> combined_sentiment,
         sentiment_label |-> _sentiment_label(combined_sentiment),
         positive_words |-> positive_count,
         negative_words |-> negative_count,
         avg_numeric_score |-> avg_score]

-----------------------------------------------------------------------------
(* Topics *)

\* A topic is listed only with at least one keyword among the tokens
TopicListed_always(matches) == TRUE

TopicListed(matches) == matches > 0

detect_topics(tokens) ==
    IF tokens = <<>> THEN <<>>
    ELSE LET token_set == Range(tokens)
             matches(topic) == Cardinality(token_set \cap TOPIC_KEYWORDS[topic])
             Matched(topic) == TopicListed(matches(topic))
             found == SelectSeq(TopicOrder, Matched)
             topic_scores ==
                 List([k \in 1..Len(found) |-> <<found[k], Rat(matches(found[k]), Len(tokens))>>])
             ByRelevance(a, b) == RLt(a[2], b[2])
         IN  SortDesc(topic_scores, ByRelevance)

-----------------------------------------------------------------------------
(* Urgency *)

\* The topic component left out
TopicUrgency_skipped(topics) == RInt(0)

\* The sum calculate_urgency_score builds before it clamps it
RECURSIVE TopicUrgency(_)
TopicUrgency(topics) ==
    IF topics = <<>> THEN RInt(0)
    ELSE RAdd(IF Head(topics)[1] \in critical_topics
              THEN RMul(RInt(10), Head(topics)[2]) ELSE RInt(0),
              TopicUrgency(Tail(topics)))

\* Every critical topic counted, whatever its rank
UnclampedUrgency_all_topics(sentiment, scores, topics) ==
    LET valid_scores == ValidScores(scores)
        base == IF valid_scores # <<>>
                THEN RSub(RInt(100), RMul(Rat(SumSeq(valid_scores), Len(valid_scores) * 5),
                                          RInt(100)))
                ELSE RInt(50)
        by_sentiment == IF FLt(sentiment.sentiment_score, Rat(-5, 10)) THEN 30
                        ELSE IF FLt(sentiment.sentiment_score, Rat(-2, 10)) THEN 20
                        ELSE IF FLt(sentiment.sentiment_score, RInt(0)) THEN 10
                        ELSE 0
        by_words == IF sentiment.negative_words >= 3 THEN 15
                    ELSE IF sentiment.negative_words >= 2 THEN 10
                    ELSE IF sentiment.negative_words >= 1 THEN 5
                    ELSE 0
    IN  RAdd(RAdd(base, RInt(by_sentiment)), RAdd(TopicUrgency(topics), RInt(by_words)))

UnclampedUrgency(sentiment, scores, topics) ==
    LET valid_scores == ValidScores(scores)
        base == IF valid_scores # <<>>
                THEN LET total_actual == SumSeq(valid_scores)
                         max_possible == Len(valid_scores) * 5
                         percentage == RMul(Rat(total_actual, max_possible), RInt(100))
                     IN  RSub(RInt(100), percentage)
                ELSE RInt(50)
        sentiment_score == sentiment.sentiment_score
        by_sentiment == IF FLt(sentiment_score, Rat(-5, 10)) THEN 30
                        ELSE IF FLt(sentiment_score, Rat(-2, 10)) THEN 20
                        ELSE IF FLt(sentiment_score, RInt(0)) THEN 10
                        ELSE 0
        by_topics == TopicUrgency(Take(topics, 3))
        negative_count == sentiment.negative_words
        by_words == IF negative_count >= 3 THEN 15
                    ELSE IF negative_count >= 2 THEN 10
                    ELSE IF negative_count >= 1 THEN 5
                    ELSE 0
    IN  RAdd(RAdd(base, RInt(by_sentiment)), RAdd(by_topics, RInt(by_words)))

calculate_urgency_score_nocap(sentiment, scores, topics) ==
    RMax(RInt(0), UnclampedUrgency(sentiment, scores, topics))

\* The rating component alone
calculate_urgency_score_ratings_only(sentiment, scores, topics) ==
    IF ValidScores(scores) = <<>> THEN RInt(50)
    ELSE RSub(RInt(100), RMul(Rat(SumSeq(ValidScores(scores)), Len(ValidScores(scores)) * 5),
                              RInt(100)))

\* The percentage of the ratings in the place of the urgency built on it
calculate_urgency_score_percentage(sentiment, scores, topics) ==
    IF ValidScores(scores) = <<>> THEN RInt(50)
    ELSE RMul(Rat(SumSeq(ValidScores(scores)), Len(ValidScores(scores)) * 5), RInt(100))

calculate_urgency_score(sentiment, scores, topics) ==
    RMax(RInt(0), RMin(UnclampedUrgency(sentiment, scores, topics), RInt(100)))

calculate_basic_score(scores) ==
    LET valid_scores == ValidScores(scores)
    IN  IF valid_scores = <<>> THEN RInt(0)
        ELSE RMul(Rat(SumSeq(valid_scores), Len(valid_scores) * 5), RInt(100))

-----------------------------------------------------------------------------
(* Clustering, statistics and the urgency histogram *)

RECURSIVE Flatten(_)
Flatten(ss) == IF ss = <<>> THEN <<>> ELSE Head(ss) \o Flatten(Tail(ss))

\* The item's last topic in the place of its first
ClusterOf_last(item) ==
    IF item.topics # <<>> THEN item.topics[Len(item.topics)][1] ELSE "algemeen"

\* The name of the cluster cluster_feedback puts an item in
ClusterOf(item) == IF item.topics # <<>> THEN item.topics[1][1] ELSE "algemeen"

\* The dict cluster name -> items, as <<name, items>> pairs in insertion order
cluster_feedback(feedback_items) ==
    LET names == Dedup(List([k \in 1..Len(feedback_items) |-> ClusterOf(feedback_items[k])]))
        Members(name) == LET In(item) == ClusterOf(item) = name
                         IN  SelectSeq(feedback_items, In)
    IN  List([k \in 1..Len(names) |-> <<names[k], Members(names[k])>>])

\* np.mean, np.median, np.std, np.min, np.max of a non-empty list of ratings;
\* the standard deviation is kept as its square, the variance
ScoreStats(values) ==
    LET n == Len(values)
        total == SumSeq(values)
        squares == SumSeq(List([k \in 1..n |-> values[k] * values[k]]))
        IntLt(a, b) == a < b
        sorted == SortDesc(values, IntLt)
    IN  [mean |-> Rat(total, n),
         median |-> IF n % 2 = 1 THEN RInt(sorted[(n + 1) \div 2])
                    ELSE Rat(sorted[n \div 2] + sorted[n \div 2 + 1], 2),
         variance |-> Rat(n * squares - total * total, n * n),
         min |-> sorted[n],
         max |-> sorted[1]]

_calculate_urgency_distribution(sorted_feedback) ==
    LET High(item) == RLt(RInt(50), item.urgency_score)
        Mid(item) == ~High(item) /\ RLe(RInt(25), item.urgency_score)
        Low(item) == ~High(item) /\ ~Mid(item)
    IN  [onvoldoende |-> Len(SelectSeq(sorted_feedback, High)),
         voldoende |-> Len(SelectSeq(sorted_feedback, Mid)),
         uitstekend |-> Len(SelectSeq(sorted_feedback, Low))]

-----------------------------------------------------------------------------
(* Insights.  An insight string is kept as its kind and the values it prints. *)

\* Counter.most_common(n) of a counter held as <<key, count>> pairs in insertion order
MostCommon(counter, n) ==
    LET ByCount(a, b) == RLt(a[2], b[2])
    IN  Take(SortDesc(counter, ByCount), n)

\* The best and the worst rating type by mean, as the fallback loop finds them
RECURSIVE BestWorst(_, _)
BestWorst(score_stats, acc) ==
    IF score_stats = <<>> THEN acc
    ELSE LET score_type == Head(score_stats)[1]
             mean == Head(score_stats)[2].mean
             a1 == IF RLt(acc.best_score_value, mean)
                   THEN [acc EXCEPT !.best_score = Some(score_type), !.best_score_value = mean]
                   ELSE acc
             a2 == IF RLt(mean, a1.worst_score_value)
                   THEN [a1 EXCEPT !.worst_score = Some(score_type), !.worst_score_value = mean]
                   ELSE a1
         IN  BestWorst(Tail(score_stats), a2)

\* Fewer than 2 items: only the warning is given
TooFewItems_none(total_items) == total_items < 1

TooFewItems(total_items) == total_items < 2

\* The sentiment rule with both thresholds inclusive
SentimentSkew_inclusive(positive_pct, negative_pct) ==
    IF RLe(RInt(60), positive_pct) THEN "positive"
    ELSE IF RLe(RInt(40), negative_pct) THEN "negative"
    ELSE "none"

\* Which sentiment insight the shares of positive and negative items call for
SentimentSkew(positive_pct, negative_pct) ==
    IF RLt(RInt(60), positive_pct) THEN "positive"
    ELSE IF RLt(RInt(40), negative_pct) THEN "negative"
    ELSE "none"

\* The fallback entries added whatever the rules gave
WithFallback_always(insights, fallback) == insights \o fallback

\* if not insights: the fallback entries stand in for an empty list
WithFallback(insights, fallback) == IF insights # <<>> THEN insights ELSE fallback

_generate_insights(topics, sentiments, score_stats, clusters, analyzed_items) ==
    LET total_items == Len(analyzed_items)
        \* Top topics
        NotGeneral(e) == e[1] # "algemeen"
        real_topics == SelectSeq(MostCommon(topics, 5), NotGeneral)
        top_topic == real_topics[1]
        topic_count == RTrunc(top_topic[2])
        min_items_needed ==
            IF total_items < 10 THEN 2
            ELSE IF total_items \div 4 > 2 THEN total_items \div 4 ELSE 2
        topic_insight ==
            IF topics # <<>> /\ real_topics # <<>> /\ topic_count >= min_items_needed
            THEN <<[kind |-> "top_topic", topic |-> top_topic[1], count |-> topic_count,
                    total |-> total_items,
                    percentage |-> RMul(Rat(topic_count, total_items), RInt(100))]>>
            ELSE <<>>
        \* Sentiment
        Get(label) == IF label \in DOMAIN sentiments THEN sentiments[label] ELSE 0
        total_sentiment == Get("positief") + Get("negatief") + Get("neutraal")
        positive_pct == RMul(Rat(Get("positief"), total_sentiment), RInt(100))
        negative_pct == RMul(Rat(Get("negatief"), total_sentiment), RInt(100))
        sentiment_insight ==
            IF total_sentiment > 0
            THEN IF SentimentSkew(positive_pct, negative_pct) = "positive"
                 THEN <<[kind |-> "positive", percentage |-> positive_pct]>>
                 ELSE IF SentimentSkew(positive_pct, negative_pct) = "negative"
                 THEN <<[kind |-> "negative", percentage |-> negative_pct]>>
                 ELSE <<>>
            ELSE <<>>
        \* Scores
        ScoreInsight(e) ==
            IF RLt(e[2].mean, Rat(25, 10))
            THEN <<[kind |-> "low_score", score_type |-> e[1], mean |-> e[2].mean]>>
            ELSE IF RLt(RInt(4), e[2].mean)
            THEN <<[kind |-> "high_score", score_type |-> e[1], mean |-> e[2].mean]>>
            ELSE <<>>
        score_insights ==
            Flatten(List([k \in 1..Len(score_stats) |-> ScoreInsight(score_stats[k])]))
        \* Clusters
        real_clusters == SelectSeq(clusters, NotGeneral)
        BySize(a, b) == Len(a[2]) < Len(b[2])
        largest_cluster == SortDesc(real_clusters, BySize)[1]
        min_cluster_size ==
            IF total_items < 10 THEN 2
            ELSE IF (total_items * 4) \div 10 > 2 THEN (total_items * 4) \div 10 ELSE 2
        cluster_insight ==
            IF clusters # <<>> /\ real_clusters # <<>>
               /\ Len(largest_cluster[2]) >= min_cluster_size
            THEN <<[kind |-> "cluster", cluster |-> largest_cluster[1],
                    size |-> Len(largest_cluster[2]), total |-> total_items,
                    percentage |-> RMul(Rat(Len(largest_cluster[2]), total_items), RInt(100))]>>
            ELSE <<>>
        \* Variation: std > 1.5, decided on the variance
        SpreadInsight(e) ==
            IF RLt(Rat(225, 100), e[2].variance)
            THEN <<[kind |-> "spread", score_type |-> e[1], min |-> e[2].min, max |-> e[2].max]>>
            ELSE <<>>
        spread_insights ==
            IF total_items >= 4
            THEN Flatten(List([k \in 1..Len(score_stats) |-> SpreadInsight(score_stats[k])]))
            ELSE <<>>
        insights == topic_insight \o sentiment_insight \o score_insights
                        \o cluster_insight \o spread_insights
        \* Fallback
        bw == BestWorst(score_stats,
                        [best_score |-> None, best_score_value |-> RInt(0),
                         worst_score |-> None, worst_score_value |-> RInt(6)])
        best == IF bw.best_score # None
                THEN <<[kind |-> "best_score", score_type |-> Val(bw.best_score),
                        mean |-> bw.best_score_value]>>
                ELSE <<>>
        worst == IF bw.worst_score # None /\ bw.worst_score # bw.best_score
                 THEN <<[kind |-> "worst_score", score_type |-> Val(bw.worst_score),
                         mean |-> bw.worst_score_value]>>
                 ELSE <<>>
        fallback == IF best \o worst # <<>> THEN best \o worst
                    ELSE <<[kind |-> "received", total |-> total_items]>>
    IN  IF TooFewItems(total_items) THEN <<[kind |-> "insufficient"]>>
        ELSE WithFallback(insights, fallback)

-----------------------------------------------------------------------------
(* The analyzer instance and the batch analysis *)

EmptyDict == <<>>

__init__(min_word_freq, num_topics) ==
    [min_word_freq |-> min_word_freq,
     num_topics |-> num_topics,
     vocabulary |-> EmptyDict,
     idf_scores |-> EmptyDict]

\* The scores dict analyze_feedback_batch builds from a feedback row
ScoresOf(feedback) ==
    [netheid |-> feedback.netheid_score,
     wifi |-> feedback.wifi_score,
     ruimte |-> feedback.ruimte_score,
     stilte |-> feedback.stilte_score,
     algemeen |-> feedback.algemene_score]

\* First loop: one processed item per feedback row
ProcessedItems(feedback_list) ==
    List([k \in 1..Len(feedback_list) |->
        [feedback_id |-> feedback_list[k].feedback_id,
         tokens |-> preprocess_text(feedback_list[k].extra_opmerkingen),
         text |-> feedback_list[k].extra_opmerkingen,
         scores |-> ScoresOf(feedback_list[k])]])

\* self.idf_scores as the second loop reads it: assigned from the batch's documents
\* after the first loop
IdfForItems_stale(self, documents) == self.idf_scores

IdfForItems_cached(self, documents) ==
    IF self.idf_scores # EmptyDict THEN self.idf_scores
    ELSE calculate_idf(self.min_word_freq, documents)

IdfForItems(self, documents) == calculate_idf(self.min_word_freq, documents)

\* Second loop body: the analysed item of a processed item
AnalyzedItem(idf_scores, item) ==
    LET tf == calculate_tf(item.tokens)
        tfidf == calculate_tfidf(tf, idf_scores)
        topics == detect_topics(item.tokens)
        sentiment == extract_sentiment(item.text, item.scores)
        key_phrases == extract_key_phrases(item.tokens, tfidf, 3)
        basic_score == calculate_basic_score(item.scores)
        urgency == calculate_urgency_score(sentiment, item.scores, topics)
        expected_urgency == RSub(RInt(100), basic_score)
    IN  [feedback_id |-> item.feedback_id,
         topics |-> topics,
         sentiment |-> sentiment,
         key_phrases |-> key_phrases,
         scores |-> item.scores,
         urgency_score |-> urgency,
         basic_score |-> basic_score,
         display_score |-> basic_score,
         negative_comments_detected |-> RLt(RAdd(expected_urgency, RInt(15)), urgency),
         full_text |-> item.text]

\* all_topics: the Counter topic -> summed relevance, in insertion order
AllTopics(analyzed_items) ==
    LET stream == Flatten(List([k \in 1..Len(analyzed_items) |-> analyzed_items[k].topics]))
        keys == Dedup(List([k \in 1..Len(stream) |-> stream[k][1]]))
        RECURSIVE Total(_, _)
        Total(topic, k) ==
            IF k = 0 THEN RInt(0)
            ELSE RAdd(Total(topic, k - 1),
                      IF stream[k][1] = topic THEN stream[k][2] ELSE RInt(0))
    IN  List([k \in 1..Len(keys) |-> <<keys[k], Total(keys[k], Len(stream))>>])

\* sentiment_counts: the Counter label -> number of items
SentimentCounts(analyzed_items) ==
    LET labels == {analyzed_items[k].sentiment.sentiment_label : k \in 1..Len(analyzed_items)}
    IN  [label \in labels |->
            Cardinality({k \in 1..Len(analyzed_items) :
                            analyzed_items[k].sentiment.sentiment_label = label})]

\* score_aggregates turned into score_stats: <<score_type, statistics>> pairs in the
\* order the rating types first carry a value
ScoreStatistics(analyzed_items) ==
    LET Rated(item) ==
            LET Given(score_type) == item.scores[score_type] # None
            IN  SelectSeq(ScoreTypes, Given)
        keys == Dedup(Flatten(List([k \in 1..Len(analyzed_items) |-> Rated(analyzed_items[k])])))
        Values(score_type) ==
            LET Has(item) == item.scores[score_type] # None
                having == SelectSeq(analyzed_items, Has)
            IN  List([k \in 1..Len(having) |-> Val(having[k].scores[score_type])])
    IN  List([k \in 1..Len(keys) |-> <<keys[k], ScoreStats(Values(keys[k]))>>])

EmptyResult_warned ==
    [total_feedback |-> 0,
     topics |-> EmptyDict,
     sentiment_distribution |-> EmptyDict,
     key_insights |-> <<[kind |-> "insufficient"]>>,
     score_statistics |-> EmptyDict,
     clusters |-> EmptyDict,
     urgent_feedback |-> <<>>,
     positive_feedback |-> <<>>]

EmptyResult ==
    [total_feedback |-> 0,
     topics |-> EmptyDict,
     sentiment_distribution |-> EmptyDict,
     key_insights |-> <<>>,
     score_statistics |-> EmptyDict,
     clusters |-> EmptyDict,
     urgent_feedback |-> <<>>,
     positive_feedback |-> <<>>]

\* An ascending sort turned round: items of equal urgency come out in the
\* reverse of their input order
SortedByUrgency_reversed(analyzed_items) ==
    LET Above(a, b) == RLt(b.urgency_score, a.urgency_score)
        ascending == SortDesc(analyzed_items, Above)
    IN  List([k \in 1..Len(ascending) |-> ascending[Len(ascending) + 1 - k]])

\* sorted(analyzed_items, key=urgency_score, reverse=True)
SortedByUrgency(analyzed_items) ==
    LET ByUrgency(a, b) == RLt(a.urgency_score, b.urgency_score)
    IN  SortDesc(analyzed_items, ByUrgency)

analyze_feedback_batch(self, feedback_list) ==
    IF feedback_list = <<>> THEN EmptyResult
    ELSE
    LET processed_items == ProcessedItems(feedback_list)
        documents == List([k \in 1..Len(processed_items) |-> processed_items[k].tokens])
        idf_scores == IdfForItems(self, documents)
        analyzed_items ==
            List([k \in 1..Len(processed_items) |-> AnalyzedItem(idf_scores, processed_items[k])])
        all_topics == AllTopics(analyzed_items)
        sentiment_counts == SentimentCounts(analyzed_items)
        clusters == cluster_feedback(analyzed_items)
        score_stats == ScoreStatistics(analyzed_items)
        insights == _generate_insights(all_topics, sentiment_counts, score_stats,
                                       clusters, analyzed_items)
        sorted_feedback == SortedByUrgency(analyzed_items)
        Urgent(f) == RLt(RInt(50), f.urgency_score)
        Positive(f) == RLt(f.urgency_score, RInt(25))
        urgent_feedback == SelectSeq(sorted_feedback, Urgent)
        positive_feedback == SelectSeq(sorted_feedback, Positive)
    IN  [total_feedback |-> Len(feedback_list),
         topics |-> MostCommon(all_topics, 10),
         sentiment_distribution |-> sentiment_counts,
         key_insights |-> insights,
         score_statistics |-> score_stats,
         clusters |-> List([k \in 1..Len(clusters) |-> <<clusters[k][1], Len(clusters[k][2])>>]),
         detailed_items |-> Take(sorted_feedback, 20),
         urgent_feedback |-> Take(urgent_feedback, 10),
         positive_feedback |-> TakeLast(positive_feedback, 10),
         urgency_distribution |-> _calculate_urgency_distribution(sorted_feedback)]

\* self.idf_scores when analyze_feedback_batch returns
IdfScoresAfter(self, feedback_list) ==
    IF feedback_list = <<>> THEN self.idf_scores
    ELSE calculate_idf(self.min_word_freq,
                       List([k \in 1..Len(feedback_list) |->
                           preprocess_text(feedback_list[k].extra_opmerkingen)]))

-----------------------------------------------------------------------------
(* Input domains *)

MaxTextLen == 2

\* The declared domain of a rating
Ratings == 1..5

\* Words the probed comments are written with: a positive word, a negative word,
\* a negative word that is a keyword of a critical topic, a capitalised keyword of a critical
\* topic, and a stopword
ProbeWords == {"goed", "slecht", "vies", "Wifi", "de"}

RECURSIVE SeqsUpTo(_, _)
SeqsUpTo(S, n) ==
    IF n = 0 THEN {<<>>}
    ELSE LET shorter == SeqsUpTo(S, n - 1)
         IN  shorter \cup {Append(s, x) : s \in shorter, x \in S}

\* extra_opmerkingen: NULL, the empty string, or a text
ProbeTexts == {None} \cup {Some(t) : t \in SeqsUpTo(ProbeWords \cup {","}, MaxTextLen)}

OptRatings == {None} \cup {Some(r) : r \in Ratings}

\* Absent, worst or best
EdgeRatings == {None, Some(1), Some(5)}

\* Rating mappings: two ratings range over the whole domain, three over its ends
ProbeScores ==
    [netheid : OptRatings, wifi : OptRatings,
     ruimte : EdgeRatings, stilte : EdgeRatings, algemeen : EdgeRatings]

Idle == [kind |-> "idle"]

-----------------------------------------------------------------------------
(* The per-item functions applied to one comment and one rating mapping *)

InitItem ==
    /\ extractor = __init__(2, 5)
    /\ last_feedback_list = <<>>
    /\ result = None
    /\ outcome = "idle"
    /\ repeated = FALSE
    /\ stale = FALSE
    /\ \E text \in ProbeTexts, scores \in ProbeScores :
           probe = [kind |-> "item", text |-> text, scores |-> scores, out |-> None]

AnalyzeItem ==
    /\ probe.kind = "item"
    /\ probe.out = None
    /\ LET tokens == preprocess_text(probe.text)
           topics == detect_topics(tokens)
           sentiment == extract_sentiment(probe.text, probe.scores)
       IN  probe' = [probe EXCEPT !.out = Some(
               [tokens |-> tokens,
                topics |-> topics,
                sentiment |-> sentiment,
                basic_score |-> calculate_basic_score(probe.scores),
                urgency_score |-> calculate_urgency_score(sentiment, probe.scores, topics)])]
    /\ UNCHANGED <<extractor, last_feedback_list, result, outcome, repeated, stale>>

NextItem == AnalyzeItem

SpecItem == InitItem /\ [][NextItem]_vars

ItemDone == probe.kind = "item" /\ probe.out # None

AllRatings(p, r) == \A k \in DOMAIN p.scores : p.scores[k] = Some(r)

NoRatings(p) == \A k \in DOMAIN p.scores : p.scores[k] = None

\* C1: calculate_urgency_score returns a value u with 0 <= u <= 100 for every
\* sentiment result, rating mapping and topic list the pipeline produces.
C1_UrgencyClamped ==
    ItemDone =>
        LET u == Val(probe.out).urgency_score
        IN  RLe(RInt(0), u) /\ RLe(u, RInt(100))

\* The sum exceeded 100 and was cut to 100
C1_Witness ==
    /\ ItemDone
    /\ RLt(RInt(100), UnclampedUrgency(Val(probe.out).sentiment, probe.scores,
                                        Val(probe.out).topics))
    /\ Val(probe.out).urgency_score = RInt(100)

\* C2: extract_sentiment returns a sentiment_score s with -1 <= s <= 1 for every
\* comment and every rating mapping whose values are in 1..5 or absent.
C2_SentimentBounded ==
    ItemDone =>
        LET s == Val(probe.out).sentiment.sentiment_score
        IN  RLe(RInt(-1), s) /\ RLe(s, RInt(1))

\* The upper bound is attained: a comment of positive words only, all ratings 5
C2_Witness ==
    /\ ItemDone
    /\ AllRatings(probe, 5)
    /\ Val(probe.out).tokens # <<>>
    /\ Val(probe.out).sentiment.sentiment_score = Float(RInt(1), 0)

-----------------------------------------------------------------------------
(* The analyzer called on batches *)

MaxBatch == 2

Row(id, text, netheid, wifi, ruimte, stilte, algemeen) ==
    [feedback_id |-> id,
     extra_opmerkingen |-> text,
     netheid_score |-> netheid,
     wifi_score |-> wifi,
     ruimte_score |-> ruimte,
     stilte_score |-> stilte,
     algemene_score |-> algemeen]

\* Rows of the Feedback table: a complaint with the worst ratings, praise with the
\* best, a row without comment and without ratings, and a row whose ratings leave
\* the declared domain
FeedbackRows ==
    {Row(1, Some(<<"Wifi", "slecht", ",", "vies">>), Some(1), Some(1), Some(1), Some(1), Some(1)),
     Row(2, Some(<<"wifi", "goed">>), Some(5), Some(4), Some(5), None, Some(4)),
     Row(3, None, None, None, None, None, None),
     Row(4, Some(<<"vies", "vies", "wifi">>), Some(7), None, None, None, None)}

\* A batch holds each row of the table at most once
Batches ==
    {b \in SeqsUpTo(FeedbackRows, MaxBatch) :
        \A i, j \in 1..Len(b) : i # j => b[i].feedback_id # b[j].feedback_id}

\* (min_word_freq, num_topics): the defaults, the values analyze_feedback_from_db
\* passes, and two configurations outside the contract
Configs == {<<2, 5>>, <<1, 5>>, <<0, 5>>, <<2, 0>>}

Init ==
    /\ \E c \in Configs : extractor = __init__(c[1], c[2])
    /\ last_feedback_list = <<>>
    /\ result = None
    /\ outcome = "idle"
    /\ repeated = FALSE
    /\ stale = FALSE
    /\ probe = Idle

\* The vocabulary filled with the terms of the batch next to idf_scores
SelfAfter_vocabulary(self, feedback_list) ==
    [self EXCEPT !.idf_scores = IdfScoresAfter(self, feedback_list),
                 !.vocabulary = IdfScoresAfter(self, feedback_list)]

\* The analyzer when analyze_feedback_batch returns: the call assigns
\* self.idf_scores and no other attribute
SelfAfter(self, feedback_list) ==
    [self EXCEPT !.idf_scores = IdfScoresAfter(self, feedback_list)]

AnalyzeCall(feedback_list) ==
    /\ result' = Some(analyze_feedback_batch(extractor, feedback_list))
    /\ extractor' = SelfAfter(extractor, feedback_list)
    /\ last_feedback_list' = feedback_list
    /\ outcome' = "returned"
    /\ repeated' = (outcome # "idle" /\ feedback_list = last_feedback_list)
    /\ stale' = /\ extractor.idf_scores # EmptyDict
                /\ extractor.idf_scores # IdfScoresAfter(__init__(extractor.min_word_freq,
                                                                  extractor.num_topics),
                                                         feedback_list)
    /\ UNCHANGED probe

Analyze(feedback_list) ==
    /\ probe = Idle
    /\ AnalyzeCall(feedback_list)

Next == \E feedback_list \in Batches : Analyze(feedback_list)

Spec == Init /\ [][Next]_vars

Returned == outcome = "returned"

\* The value the latest call returned
Res == Val(result)

\* Some analysed item of the latest result carries a key phrase
HasKeyPhrase ==
    /\ "detailed_items" \in DOMAIN Res
    /\ \E k \in 1..Len(Res.detailed_items) : Res.detailed_items[k].key_phrases # <<>>

\* C3: analyze_feedback_batch called twice with the same batch returns two identical
\* results: a call given the batch of the call before it returns what that call returned.
C3_SameBatchSameResult == [][repeated' => result' = result]_vars

\* A batch of several items, with key phrases, was analysed twice in a row
C3_Witness ==
    /\ Returned
    /\ repeated
    /\ Len(last_feedback_list) >= 2
    /\ HasKeyPhrase

\* C4: after any sequence of calls on one analyzer, a call returns what a freshly
\* constructed analyzer with the same configuration returns for the same batch.
C4_FreshAnalyzerSameResult ==
    Returned =>
        Res = analyze_feedback_batch(
                  __init__(extractor.min_word_freq, extractor.num_topics),
                  last_feedback_list)

\* The call found the IDF values of another batch in the analyzer
C4_Witness ==
    /\ Returned
    /\ stale
    /\ last_feedback_list # <<>>
    /\ HasKeyPhrase

\* C5: an empty batch does not fail and returns total count 0 and empty collections.
C5_EmptyBatchEmptyResult ==
    (outcome # "idle" /\ last_feedback_list = <<>>) =>
        /\ Returned
        /\ Res.total_feedback = 0
        /\ Res.topics = EmptyDict
        /\ Res.sentiment_distribution = EmptyDict
        /\ Res.key_insights = <<>>
        /\ Res.score_statistics = EmptyDict
        /\ Res.clusters = EmptyDict
        /\ Res.urgent_feedback = <<>>
        /\ Res.positive_feedback = <<>>

\* An empty batch was analysed by an analyzer that had analysed other batches
C5_Witness ==
    /\ Returned
    /\ last_feedback_list = <<>>
    /\ extractor.idf_scores # EmptyDict

\* The ten fields of the output contract
OutputFields ==
    {"total_feedback", "topics", "sentiment_distribution", "key_insights",
     "score_statistics", "clusters", "detailed_items", "urgent_feedback",
     "positive_feedback", "urgency_distribution"}

\* C6: for every input batch, the empty batch included, the result carries all ten
\* fields of the output contract, topics holding at most 10 entries.
C6_AllOutputFields ==
    Returned =>
        /\ OutputFields \subseteq DOMAIN Res
        /\ Len(Res.topics) <= 10

\* The caller broke the contract: a rating outside 1..5 in the batch, or an analyzer
\* configured with min_word_freq <= 0 or num_topics <= 0
RatingsInDomain(feedback) ==
    \A score_type \in DOMAIN ScoresOf(feedback) :
        ScoresOf(feedback)[score_type] \subseteq Ratings

ContractViolated ==
    \/ extractor.min_word_freq <= 0
    \/ extractor.num_topics <= 0
    \/ \E k \in 1..Len(last_feedback_list) : ~RatingsInDomain(last_feedback_list[k])

\* C7: a contract violation by the caller ends in an error outcome, not in an
\* analysis result.
C7_ContractViolationFails ==
    (outcome # "idle" /\ ContractViolated) => (outcome = "raised" /\ result = None)

\* C8: for every batch of exactly 1 item key_insights is exactly the one
\* 'insufficient data' message.
C8_SingleItemInsufficient ==
    (Returned /\ Len(last_feedback_list) = 1) =>
        Res.key_insights = <<[kind |-> "insufficient"]>>

\* A single item whose ratings are all 1, with a comment naming a topic
C8_Witness ==
    /\ Returned
    /\ Len(last_feedback_list) = 1
    /\ \A score_type \in DOMAIN ScoresOf(last_feedback_list[1]) :
           ScoresOf(last_feedback_list[1])[score_type] = Some(1)
    /\ Res.topics # EmptyDict

-----------------------------------------------------------------------------
(* The analyzer called once on a batch of one row *)

SingleTexts == {None} \cup {Some(t) : t \in SeqsUpTo({"goed", "vies"}, MaxTextLen)}

InitSingle ==
    /\ extractor = __init__(1, 5)
    /\ last_feedback_list = <<>>
    /\ result = None
    /\ outcome = "idle"
    /\ repeated = FALSE
    /\ stale = FALSE
    /\ \E text \in SingleTexts, scores \in ProbeScores :
           probe = [kind |-> "batch",
                    feedback_list |-> <<Row(1, text, scores.netheid, scores.wifi,
                                            scores.ruimte, scores.stilte, scores.algemeen)>>]

AnalyzeProbed ==
    /\ probe.kind = "batch"
    /\ outcome = "idle"
    /\ AnalyzeCall(probe.feedback_list)

NextSingle == AnalyzeProbed

SpecSingle == InitSingle /\ [][NextSingle]_vars

-----------------------------------------------------------------------------
(* detect_topics applied to token sequences *)

MaxTokens == 3

\* Keywords of two topics, two of them of the same topic, and two words of no topic
TopicTokens == {"vies", "schoon", "wifi", "lamp", "de"}

InitTopics ==
    /\ extractor = __init__(2, 5)
    /\ last_feedback_list = <<>>
    /\ result = None
    /\ outcome = "idle"
    /\ repeated = FALSE
    /\ stale = FALSE
    /\ \E tokens \in SeqsUpTo(TopicTokens, MaxTokens) :
           probe = [kind |-> "tokens", tokens |-> tokens, out |-> None]

DetectTopics ==
    /\ probe.kind = "tokens"
    /\ probe.out = None
    /\ probe' = [probe EXCEPT !.out = Some(detect_topics(probe.tokens))]
    /\ UNCHANGED <<extractor, last_feedback_list, result, outcome, repeated, stale>>

NextTopics == DetectTopics

SpecTopics == InitTopics /\ [][NextTopics]_vars

TopicsDone == probe.kind = "tokens" /\ probe.out # None

\* C9: every (topic, relevance) pair detect_topics returns has 0 < relevance <= 1,
\* and a topic none of whose keywords occurs in the tokens is not returned.
C9_RelevanceInRange ==
    TopicsDone =>
        LET topics == Val(probe.out)
        IN  /\ \A k \in 1..Len(topics) :
                   RLt(RInt(0), topics[k][2]) /\ RLe(topics[k][2], RInt(1))
            /\ \A topic \in DOMAIN TOPIC_KEYWORDS :
                   (Range(probe.tokens) \cap TOPIC_KEYWORDS[topic] = {}) =>
                       (\A k \in 1..Len(topics) : topics[k][1] # topic)

\* A keyword occurs twice and counts once: its topic is returned with relevance 1/2
C9_Witness ==
    /\ TopicsDone
    /\ Len(probe.tokens) = 2
    /\ probe.tokens[1] = probe.tokens[2]
    /\ Val(probe.out) = <<<<"netheid", Rat(1, 2)>>>>

-----------------------------------------------------------------------------
(* calculate_tf, calculate_idf and calculate_tfidf applied to a corpus *)

MaxDocs == 2

MaxDocLen == 2

MaxMinWordFreq == 3

CorpusTokens == {"wifi", "vies"}

InitCorpus ==
    /\ last_feedback_list = <<>>
    /\ result = None
    /\ outcome = "idle"
    /\ repeated = FALSE
    /\ stale = FALSE
    /\ \E min_word_freq \in 1..MaxMinWordFreq :
           extractor = __init__(min_word_freq, 5)
    /\ \E documents \in SeqsUpTo(SeqsUpTo(CorpusTokens, MaxDocLen), MaxDocs) :
           probe = [kind |-> "corpus", documents |-> documents, out |-> None]

WeighCorpus ==
    /\ probe.kind = "corpus"
    /\ probe.out = None
    /\ LET idf == calculate_idf(extractor.min_word_freq, probe.documents)
       IN  probe' = [probe EXCEPT !.out = Some(
               [idf |-> idf,
                tfidf |-> List([d \in 1..Len(probe.documents) |->
                              calculate_tfidf(calculate_tf(probe.documents[d]), idf)])])]
    /\ UNCHANGED <<extractor, last_feedback_list, result, outcome, repeated, stale>>

NextCorpus == WeighCorpus

SpecCorpus == InitCorpus /\ [][NextCorpus]_vars

CorpusDone == probe.kind = "corpus" /\ probe.out # None

\* The tokens that occur in every document of the corpus
InEveryDocument(documents) ==
    {token \in CorpusTokens :
        documents # <<>> /\ \A d \in 1..Len(documents) : token \in Range(documents[d])}

\* C10: every TF-IDF weight is >= 0, and a token that occurs in every document has
\* IDF log(1) = 0 and TF-IDF weight 0 in every document, whatever its frequency
\* (a token whose document frequency is below min_word_freq has no IDF and no weight).
C10_WeightsNonNegative ==
    CorpusDone =>
        LET idf == Val(probe.out).idf
            tfidf == Val(probe.out).tfidf
        IN  /\ \A d \in 1..Len(tfidf) : \A k \in 1..Len(tfidf[d]) :
                   LogSign(tfidf[d][k][2]) >= 0
            /\ \A token \in InEveryDocument(probe.documents) :
                   /\ token \in DOMAIN idf => idf[token] = RInt(1)
                   /\ \A d \in 1..Len(tfidf) : \A k \in 1..Len(tfidf[d]) :
                          tfidf[d][k][1] = token => LogSign(tfidf[d][k][2]) = 0

\* A token occurs in both documents, twice in one of them, and is weighted 0 there,
\* while another token has a positive weight
C10_Witness ==
    /\ CorpusDone
    /\ probe.documents = <<<<"wifi", "wifi">>, <<"wifi", "vies">>>>
    /\ "wifi" \in DOMAIN Val(probe.out).idf
    /\ LogSign(Val(probe.out).tfidf[1][1][2]) = 0
    /\ \E k \in 1..Len(Val(probe.out).tfidf[2]) : LogSign(Val(probe.out).tfidf[2][k][2]) > 0

-----------------------------------------------------------------------------
(* preprocess_text applied to a text, and to its own output joined by spaces *)

\* Words the tokenized texts are written with: capitalised and upper-case words, a
\* capitalised stopword, a stopword, a word of two letters and a plain word
TokenizerWords == {"Wifi", "Niet", "de", "SLECHT", "vies", "ok"}

TokenizerTexts ==
    {None} \cup {Some(t) : t \in SeqsUpTo(TokenizerWords \cup {","}, MaxTextLen)}

\* ' '.join(tokens): the text whose words are the tokens
Rejoin(tokens) == Some(tokens)

InitText ==
    /\ extractor = __init__(2, 5)
    /\ last_feedback_list = <<>>
    /\ result = None
    /\ outcome = "idle"
    /\ repeated = FALSE
    /\ stale = FALSE
    /\ \E text \in TokenizerTexts :
           probe = [kind |-> "text", text |-> text, out |-> None]

TokenizeText ==
    /\ probe.kind = "text"
    /\ probe.out = None
    /\ LET tokens == preprocess_text(probe.text)
       IN  probe' = [probe EXCEPT !.out = Some(
               [tokens |-> tokens,
                second |-> preprocess_text(probe.text),
                rejoined |-> preprocess_text(Rejoin(tokens))])]
    /\ UNCHANGED <<extractor, last_feedback_list, result, outcome, repeated, stale>>

NextText == TokenizeText

SpecText == InitText /\ [][NextText]_vars

TextDone == probe.kind = "text" /\ probe.out # None

\* C11: tokenizing the space-joined tokens of preprocess_text(s) yields exactly
\* preprocess_text(s), and tokenizing s twice yields the same sequence.
C11_TokenizeIdempotent ==
    TextDone =>
        /\ Val(probe.out).rejoined = Val(probe.out).tokens
        /\ Val(probe.out).second = Val(probe.out).tokens

\* A text of a capitalised stopword and a capitalised word: the first pass changed it,
\* the second pass changes nothing
C11_Witness ==
    /\ TextDone
    /\ probe.text = Some(<<"Niet", "Wifi">>)
    /\ Val(probe.out).tokens = <<"wifi">>
    /\ Val(probe.out).rejoined = <<"wifi">>

-----------------------------------------------------------------------------
(* A batch of two rows with the same ratings: one with a comment that mentions wifi, *)
(* one without comment                                                               *)

PairWords == {"wifi", "goed", "vies"}

\* A comment in which wifi is outranked by three topics that are not critical, and
\* which has no word of the sentiment lexicons
OutrankedComment ==
    <<"wifi", "ruimte", "plek", "geluid", "herrie", "locatie", "afstand">>

\* Comments that mention wifi
WifiComments ==
    {t \in SeqsUpTo(PairWords, MaxTextLen) : "wifi" \in Range(t)} \cup {OutrankedComment}

NoComment == {None, Some(<<>>)}

InitPair ==
    /\ extractor = __init__(1, 5)
    /\ last_feedback_list = <<>>
    /\ result = None
    /\ outcome = "idle"
    /\ repeated = FALSE
    /\ stale = FALSE
    /\ \E comment \in WifiComments, blank \in NoComment, scores \in ProbeScores :
           probe = [kind |-> "batch",
                    feedback_list |->
                        <<Row(1, Some(comment), scores.netheid, scores.wifi,
                              scores.ruimte, scores.stilte, scores.algemeen),
                          Row(2, blank, scores.netheid, scores.wifi,
                              scores.ruimte, scores.stilte, scores.algemeen)>>]

NextPair == AnalyzeProbed

SpecPair == InitPair /\ [][NextPair]_vars

\* The analysed item of the latest result that has the given feedback_id
ItemOf(id) ==
    LET k == CHOOSE k \in 1..Len(Res.detailed_items) : Res.detailed_items[k].feedback_id = id
    IN  Res.detailed_items[k]

PairDone == Returned /\ Len(last_feedback_list) = 2

\* One of the first three topics of the item is a critical topic
CriticalTopicCounted(item) ==
    \E k \in 1..Len(Take(item.topics, 3)) : item.topics[k][1] \in critical_topics

\* C12 as stated: the item with the wifi comment gets a strictly higher urgency_score
\* than the item with the same ratings and no comment.
C12_CommentStrictlyHigher ==
    PairDone => RLt(ItemOf(2).urgency_score, ItemOf(1).urgency_score)

\* C12 amended: when the wifi comment has no positive-lexicon word, its item's
\* urgency_score is never lower than that of the item without comment, and it is
\* strictly higher when a critical topic is among the comment's first three topics and
\* the item without comment scores below 100.
C12_CommentNotLower ==
    (PairDone /\ ItemOf(1).sentiment.positive_words = 0) =>
        /\ RLe(ItemOf(2).urgency_score, ItemOf(1).urgency_score)
        /\ (CriticalTopicCounted(ItemOf(1)) /\ RLt(ItemOf(2).urgency_score, RInt(100)))
               => RLt(ItemOf(2).urgency_score, ItemOf(1).urgency_score)

\* The comment is the one word wifi, the ratings are all 5: 10 against 0
C12_Witness ==
    /\ PairDone
    /\ last_feedback_list[1].extra_opmerkingen = Some(<<"wifi">>)
    /\ ItemOf(1).urgency_score = RInt(10)
    /\ ItemOf(2).urgency_score = RInt(0)

-----------------------------------------------------------------------------
(* Items with the worst ratings *)

\* The positions in the latest batch of the rows whose five ratings are all 1 and
\* whose comment has no word of POSITIVE_WORDS
WorstRows ==
    {k \in 1..Len(last_feedback_list) :
        /\ \A score_type \in DOMAIN ScoresOf(last_feedback_list[k]) :
               ScoresOf(last_feedback_list[k])[score_type] = Some(1)
        /\ Range(preprocess_text(last_feedback_list[k].extra_opmerkingen))
               \cap POSITIVE_WORDS = {}}

\* C13: an item whose five ratings are all 1 and whose comment has no positive-lexicon
\* word is labelled negative, has urgency_score 100, is counted in the 'onvoldoende'
\* bucket and appears in urgent_feedback (batches of at most 10 items).
C13_WorstItemMostUrgent ==
    (Returned /\ WorstRows # {} /\ Len(last_feedback_list) <= 10) =>
        /\ Res.urgency_distribution.onvoldoende >= Cardinality(WorstRows)
        /\ \A k \in WorstRows :
               LET id == last_feedback_list[k].feedback_id
               IN  /\ ItemOf(id).sentiment.sentiment_label = "negatief"
                   /\ ItemOf(id).urgency_score = RInt(100)
                   /\ \E j \in 1..Len(Res.urgent_feedback) :
                          Res.urgent_feedback[j].feedback_id = id

\* The worst row came second in the batch and is listed first, before a row that
\* is not urgent
C13_Witness ==
    /\ Returned
    /\ Len(last_feedback_list) = 2
    /\ 2 \in WorstRows
    /\ Res.detailed_items[1].feedback_id = last_feedback_list[2].feedback_id
    /\ Len(Res.urgent_feedback) = 1

-----------------------------------------------------------------------------
(* summarize_text *)

\* stopwords of summarize_text
SummaryStopwords ==
    {"de", "het", "een", "en", "van", "in", "op", "te", "voor", "met",
     "is", "zijn", "was", "er", "maar", "om", "aan", "dat", "die", "dit",
     "als", "bij", "dan", "heeft", "hem", "hier", "hun", "ik", "je",
     "kan", "meer", "mijn", "nog", "nu", "ook", "of", "over",
     "onder", "uit", "want", "waren", "wat", "werd", "wie",
     "wordt", "zeer", "zich", "zo", "zonder", "naar", "door", "moet",
     "hebben", "had", "ben", "bent", "deze", "geen", "geweest", "haar",
     "heel", "iets", "iemand", "kon", "kunnen", "mag", "veel", "wel",
     "zal", "zelf", "zou", "altijd", "alleen", "andere", "beide",
     "dus", "echter", "eerst", "eigenlijk", "erg", "gewoon",
     "hoe", "juist", "meestal", "misschien", "omdat", "vaak", "vooral",
     "waar", "waarom", "weinig", "zoals"}

subject_words ==
    {"wifi", "internet", "verbinding", "netwerk",
     "bureau", "stoel", "scherm", "toetsenbord", "muis", "tafel", "desk",
     "ruimte", "kamer", "zaal", "locatie", "plaats", "kantoor",
     "geluid", "lawaai", "stil", "luid", "herrie", "ruis",
     "temperatuur", "warm", "koud", "airco", "verwarming",
     "licht", "verlichting", "lamp", "donker", "helder",
     "toilet", "wc", "badkamer", "keuken", "koffie",
     "printer", "beamer", "apparatuur", "computer"}

keep_words ==
    {"vies", "vuil", "schoon", "netjes", "proper", "smerig", "stoffig",
     "goed", "slecht", "top", "prima", "uitstekend", "fantastisch",
     "probleem", "storing", "defect", "kapot", "werkt", "functioneert",
     "klein", "groot", "ruim", "krap", "beperkt", "vol",
     "fijn", "prettig", "comfortabel", "oncomfortabel", "aangenaam",
     "snel", "traag", "langzaam", "rap", "vlot", "minpunt", "niks"}

\* word_replacements; "" removes the word
word_replacements ==
    [niks |-> "slecht", stomme |-> "slecht", minpunt |-> "probleem",
     helemaal |-> "", enige |-> "", af |-> "weg", toe |-> "",
     viel |-> "weg", trekt |-> "werkt", soms |-> "vaak"]

IsWordLexeme(l) == l \notin Punctuation

\* s[i:], 1-based
Drop(s, n) == SubSeq(s, n + 1, Len(s))

\* The phrase rewrites, in the order the code applies them. PhraseMatch is the
\* number of lexemes the rule's pattern matches at the head of s, 0 when it does
\* not match there; words follow each other separated by whitespace only.
PhraseMatch(rule, s) ==
    LET At(i, w) == Len(s) >= i /\ s[i] = w
    IN  CASE rule = 1 -> IF At(1, "trekt") /\ At(2, "niks") THEN 2 ELSE 0
          [] rule = 2 -> IF At(1, "af") /\ (At(2, "en") \/ At(2, "e")) /\ At(3, "toe")
                         THEN IF At(4, "weg") /\ At(5, "viel") THEN 5
                              ELSE IF At(4, "viel") THEN 4 ELSE 0
                         ELSE 0
          [] rule = 3 -> IF At(1, "enige") /\ At(2, "minpunt") THEN 2 ELSE 0
          [] rule = 4 -> IF At(1, "helemaal") /\ Len(s) >= 3 /\ IsWordLexeme(s[2])
                            /\ At(3, "stomme")
                         THEN 3 ELSE 0
          [] rule = 5 -> IF At(1, "soms") /\ At(2, "weg") THEN 2 ELSE 0

PhraseReplacement(rule, s) ==
    CASE rule = 1 -> <<"werkt", "slecht">>
      [] rule = 2 -> <<"wifi", "vaak", "weg">>
      [] rule = 3 -> <<"probleem">>
      [] rule = 4 -> <<s[2], "slecht">>
      [] rule = 5 -> <<"wifi", "vaak", "weg">>

\* re.sub(pattern, replacement, s): every match, left to right, not overlapping
RECURSIVE RewritePhrase(_, _)
RewritePhrase(rule, s) ==
    IF s = <<>> THEN <<>>
    ELSE IF PhraseMatch(rule, s) > 0
         THEN PhraseReplacement(rule, s) \o RewritePhrase(rule, Drop(s, PhraseMatch(rule, s)))
         ELSE <<Head(s)>> \o RewritePhrase(rule, Tail(s))

\* processed_text: lowercased, the five rewrites applied one after the other
ProcessedText(lexemes) ==
    LET lowered == List([i \in 1..Len(lexemes) |-> Lower(lexemes[i])])
    IN  RewritePhrase(5, RewritePhrase(4, RewritePhrase(3,
            RewritePhrase(2, RewritePhrase(1, lowered)))))

\* re.split on a separator that is one lexeme of seps
RECURSIVE SplitBy(_, _)
SplitBy(s, seps) ==
    LET at == {i \in 1..Len(s) : s[i] \in seps}
    IN  IF at = {} THEN <<s>>
        ELSE LET i == CHOOSE i \in at : \A j \in at : i <= j
             IN  <<SubSeq(s, 1, i - 1)>> \o SplitBy(Drop(s, i), seps)

\* re.split(r'\s+en\s+', comma_part): the word en with whitespace on both sides, that
\* is neither the first lexeme of the part (nor of what is left after a split) nor
\* followed by a punctuation mark or by nothing
RECURSIVE SplitEn(_)
SplitEn(s) ==
    LET at == {i \in 2..(Len(s) - 1) : s[i] = "en" /\ IsWordLexeme(s[i + 1])}
    IN  IF at = {} THEN <<s>>
        ELSE LET i == CHOOSE i \in at : \A j \in at : i <= j
             IN  <<SubSeq(s, 1, i - 1)>> \o SplitEn(Drop(s, i))

\* The sentences of the text in the order the three nested loops visit them: the
\* comma parts, their en parts, the sentences of each
Sentences(processed_text) ==
    LET comma_parts == SplitBy(processed_text, {","})
        en_parts == Flatten(List([k \in 1..Len(comma_parts) |-> SplitEn(comma_parts[k])]))
    IN  Flatten(List([k \in 1..Len(en_parts) |-> SplitBy(en_parts[k], {".", "!", "?"})]))

\* len(sentence) after strip(): the words and one space between two words
RECURSIVE CharLen(_)
CharLen(words) ==
    IF words = <<>> THEN 0
    ELSE Len(Head(words)) + (IF Len(words) > 1 THEN 1 ELSE 0) + CharLen(Tail(words))

\* The while loop over the words of a sentence
RECURSIVE FilterWords(_)
FilterWords(words) ==
    IF words = <<>> THEN <<>>
    ELSE LET word == Head(words)
             kept == IF word \in DOMAIN word_replacements
                     THEN IF word_replacements[word] # "" THEN <<word_replacements[word]>>
                          ELSE <<>>
                     ELSE IF word \in subject_words THEN <<word>>
                     ELSE IF word \in keep_words THEN <<word>>
                     ELSE IF word \in SummaryStopwords THEN <<>>
                     ELSE <<word>>
         IN  kept \o FilterWords(Tail(words))

\* Every filtered word kept
CleanWords_all(filtered_words) == filtered_words

\* cleaned_words: a word equal to the one kept before it is dropped
RECURSIVE CleanWords(_)
CleanWords(filtered_words) ==
    IF filtered_words = <<>> THEN <<>>
    ELSE LET before == CleanWords(SubSeq(filtered_words, 1, Len(filtered_words) - 1))
             word == filtered_words[Len(filtered_words)]
         IN  IF before = <<>> \/ word # before[Len(before)] THEN Append(before, word)
             ELSE before

\* A line of the summary: its words, and whether its first character was upper-cased
Capitalized(words) == [upper |-> TRUE, words |-> words]

\* The clause of a sentence: its cleaned words, <<>> when the sentence is skipped
Clause(sentence) ==
    IF sentence = <<>> \/ CharLen(sentence) < 3 THEN <<>>
    ELSE CleanWords(FilterWords(sentence))

\* Equal clauses all kept
AddBullet_repeated(bullet_points, clause) ==
    IF clause = <<>> THEN bullet_points ELSE Append(bullet_points, Capitalized(clause))

\* bullet_points.append(clean_part) unless it is there already
AddBullet(bullet_points, clause) ==
    IF clause = <<>> \/ Capitalized(clause) \in Range(bullet_points) THEN bullet_points
    ELSE Append(bullet_points, Capitalized(clause))

RECURSIVE CollectBullets(_, _)
CollectBullets(bullet_points, sentences) ==
    IF sentences = <<>> THEN bullet_points
    ELSE CollectBullets(AddBullet(bullet_points, Clause(Head(sentences))), Tail(sentences))

\* bullet_points when the loops are done
BulletPoints(lexemes) == CollectBullets(<<>>, Sentences(ProcessedText(lexemes)))

\* text.split(): each word with the punctuation marks that follow it
RECURSIVE Chunks(_)
Chunks(lexemes) ==
    IF lexemes = <<>> THEN <<>>
    ELSE LET rest == Chunks(Tail(lexemes))
         IN  IF rest # <<>> /\ ~IsWordLexeme(lexemes[2])
             THEN <<Head(lexemes) \o Head(rest)>> \o Tail(rest)
             ELSE <<Head(lexemes)>> \o rest

\* The fallback: the first three chunks of the raw text
FallbackLine(lexemes) ==
    LET first_words == Take(Chunks(lexemes), 3)
        NotStop(w) == Lower(w) \notin SummaryStopwords
        result_words == SelectSeq(first_words, NotStop)
    IN  IF result_words # <<>> THEN Capitalized(result_words)
        ELSE [upper |-> FALSE, words |-> first_words]

\* The summary string: its lines, and whether each line has the bullet prefix
summarize_text(text) ==
    IF IsBlank(text) THEN [bulleted |-> FALSE, lines |-> <<>>]
    ELSE LET bullet_points == BulletPoints(Val(text))
         IN  IF bullet_points = <<>>
             THEN [bulleted |-> FALSE, lines |-> <<FallbackLine(Val(text))>>]
             ELSE IF Len(bullet_points) = 1
             THEN [bulleted |-> FALSE, lines |-> bullet_points]
             ELSE [bulleted |-> TRUE, lines |-> bullet_points]

-----------------------------------------------------------------------------
(* summarize_text applied to comments *)

MaxSummaryLen == 4

\* A capitalised subject word, a word to keep, a word that is replaced by that word,
\* a stopword, the conjunction, a comma and a full stop
SummaryLexemes == {"Wifi", "slecht", "niks", "de", "en", ",", "."}

\* Comments with the idioms the phrase rewrites look for, and a comment of two letters
IdiomTexts ==
    {<<"wifi", "trekt", "niks">>,
     <<"wifi", "af", "en", "toe", "weg", "viel">>,
     <<"enige", "minpunt", "wifi">>,
     <<"helemaal", "die", "stomme", "wifi">>,
     <<"wifi", "soms", "weg">>,
     <<"ok">>}

SummaryTexts ==
    {None} \cup {Some(t) : t \in SeqsUpTo(SummaryLexemes, MaxSummaryLen) \cup IdiomTexts}

InitSummary ==
    /\ extractor = __init__(1, 5)
    /\ last_feedback_list = <<>>
    /\ result = None
    /\ outcome = "idle"
    /\ repeated = FALSE
    /\ stale = FALSE
    /\ \E text \in SummaryTexts :
           probe = [kind |-> "summary", text |-> text, out |-> None]

SummarizeText ==
    /\ probe.kind = "summary"
    /\ probe.out = None
    /\ probe' = [probe EXCEPT !.out = Some(summarize_text(probe.text))]
    /\ UNCHANGED <<extractor, last_feedback_list, result, outcome, repeated, stale>>

NextSummary == SummarizeText

SpecSummary == InitSummary /\ [][NextSummary]_vars

\* summarize_text returned the summary of a comment that is not blank
SummaryDone == probe.kind = "summary" /\ probe.out # None /\ ~IsBlank(probe.text)

Summary == Val(probe.out)

\* The lowercased comment
LoweredComment == List([i \in 1..Len(Val(probe.text)) |-> Lower(Val(probe.text)[i])])

\* The clauses of the comment: its parts between commas and the conjunction en
CommaEnClauses ==
    LET comma_parts == SplitBy(ProcessedText(Val(probe.text)), {","})
    IN  Flatten(List([k \in 1..Len(comma_parts) |-> SplitEn(comma_parts[k])]))

\* How many of those clauses keep at least one word after filtering
SurvivingCommaEnClauses ==
    LET Words(clause) == SelectSeq(clause, IsWordLexeme)
    IN  Cardinality({k \in 1..Len(CommaEnClauses) :
                        FilterWords(Words(CommaEnClauses[k])) # <<>>})

DistinctClauses ==
    {Clause(sentence) : sentence \in Range(Sentences(ProcessedText(Val(probe.text))))}
        \ {<<>>}

C15_NoAdjacentRepeat ==
    (SummaryDone /\ DistinctClauses # {}) =>
        \A k \in 1..Len(Summary.lines) :
            \A i \in 1..(Len(Summary.lines[k].words) - 1) :
                Summary.lines[k].words[i] # Summary.lines[k].words[i + 1]

\* niks is replaced by slecht right after slecht, and the repeat is collapsed
C15_Witness ==
    /\ SummaryDone
    /\ probe.text = Some(<<"Wifi", "slecht", "niks">>)
    /\ Summary = [bulleted |-> FALSE, lines |-> <<Capitalized(<<"wifi", "slecht">>)>>]

-----------------------------------------------------------------------------
(* Rows without comment and without ratings *)

\* The positions in the latest batch of the rows whose comment is null or empty and
\* whose five ratings are all null
BlankRows ==
    {k \in 1..Len(last_feedback_list) :
        /\ IsBlank(last_feedback_list[k].extra_opmerkingen)
        /\ \A score_type \in DOMAIN ScoresOf(last_feedback_list[k]) :
               ScoresOf(last_feedback_list[k])[score_type] = None}

\* The latest batch without those rows
RatedOrCommentedRows ==
    LET NotBlank(feedback) ==
            \E k \in 1..Len(last_feedback_list) :
                k \notin BlankRows /\ last_feedback_list[k] = feedback
    IN  SelectSeq(last_feedback_list, NotBlank)

\* C16: an item with null or empty comment and five null ratings is analysed without
\* error: no tokens, topics or key phrases, sentiment 0 and neutral, basic score 0,
\* urgency_score 50, cluster 'algemeen', bucket 'voldoende', and no value in any
\* rating type's statistics.
C16_BlankItemDefaults ==
    (outcome # "idle" /\ BlankRows # {}) =>
        /\ Returned
        /\ \A k \in BlankRows :
               LET item == ItemOf(last_feedback_list[k].feedback_id)
               IN  /\ preprocess_text(last_feedback_list[k].extra_opmerkingen) = <<>>
                   /\ item.topics = <<>>
                   /\ item.key_phrases = <<>>
                   /\ item.sentiment.sentiment_score = Float(RInt(0), 0)
                   /\ item.sentiment.sentiment_label = "neutraal"
                   /\ item.basic_score = RInt(0)
                   /\ item.urgency_score = RInt(50)
        /\ \E c \in 1..Len(Res.clusters) :
               Res.clusters[c][1] = "algemeen" /\ Res.clusters[c][2] >= Cardinality(BlankRows)
        /\ Res.urgency_distribution.voldoende >= Cardinality(BlankRows)
        /\ Res.score_statistics =
               IF RatedOrCommentedRows = <<>> THEN EmptyDict
               ELSE analyze_feedback_batch(extractor, RatedOrCommentedRows).score_statistics

\* The blank row was analysed together with a rated row, whose ratings alone make up
\* the statistics
C16_Witness ==
    /\ Returned
    /\ Len(last_feedback_list) = 2
    /\ BlankRows = {1}
    /\ Res.score_statistics # EmptyDict

-----------------------------------------------------------------------------
(* The sentiment label against the combined score *)

\* The ratings given in a rating mapping
RatedTypes(scores) == {k \in DOMAIN scores : scores[k] # None}

MeanRating(scores) ==
    IF RatedTypes(scores) = {} THEN RInt(3)
    ELSE Rat(SumSeq(List([i \in 1..Len(ScoreTypes) |->
                 IF scores[ScoreTypes[i]] = None THEN 0 ELSE Val(scores[ScoreTypes[i]])])),
             Cardinality(RatedTypes(scores)))

\* (distinct positive words - distinct negative words) / number of tokens
TextComponent(tokens) ==
    IF tokens = <<>> THEN RInt(0)
    ELSE Rat(Cardinality(Range(tokens) \cap POSITIVE_WORDS)
             - Cardinality(Range(tokens) \cap NEGATIVE_WORDS), Len(tokens))

RatingComponent(scores) == RDiv(RSub(MeanRating(scores), RInt(3)), RInt(2))

\* C17: the sentiment score is 0.4 * text component + 0.6 * (mean rating - 3) / 2,
\* the mean being 3 and the rating component 0 with no ratings, and the label is
\* 'positief' exactly when the score is > 0.3, 'negatief' exactly when it is
\* < -0.3 and 'neutraal' otherwise, so that 0.3 and -0.3 are 'neutraal'.
C17_LabelByThresholds ==
    ItemDone =>
        LET sentiment == Val(probe.out).sentiment
            score == sentiment.sentiment_score
            text_component == TextComponent(Val(probe.out).tokens)
        IN  /\ Exact(score) = RAdd(RMul(Rat(4, 10), text_component),
                                   RMul(Rat(6, 10), RatingComponent(probe.scores)))
            /\ sentiment.sentiment_label \in {"positief", "negatief", "neutraal"}
            /\ sentiment.sentiment_label = "positief" <=> FGt(score, Rat(3, 10))
            /\ sentiment.sentiment_label = "negatief" <=> FLt(score, Rat(-3, 10))
            /\ NoRatings(probe) =>
                   /\ sentiment.avg_numeric_score = RInt(3)
                   /\ Exact(score) = RMul(Rat(4, 10), text_component)

\* Ratings whose mean is 4 and no comment: the score is 0.3, the label 'neutraal'
C17_Witness ==
    /\ ItemDone
    /\ Val(probe.out).tokens = <<>>
    /\ MeanRating(probe.scores) = RInt(4)
    /\ Val(probe.out).sentiment.sentiment_score = Float(Rat(3, 10), 0)
    /\ Val(probe.out).sentiment.sentiment_label = "neutraal"

-----------------------------------------------------------------------------
(* calculate_urgency_score applied to sentiment results, rating mappings and
   topic lists *)

MaxTopics == 4

\* Two critical topics and two others
UrgencyTopicNames == {"wifi", "netheid", "ruimte", "geluid"}

UrgencyRelevances == {Rat(1, 2), Rat(1, 4)}

\* Topic lists as detect_topics returns them: one entry per topic, by
\* non-increasing relevance
UrgencyTopicLists ==
    {ts \in SeqsUpTo(UrgencyTopicNames \X UrgencyRelevances, MaxTopics) :
        /\ \A i, j \in 1..Len(ts) : i < j => ts[i][1] # ts[j][1]
        /\ \A i \in 1..(Len(ts) - 1) : RLe(ts[i + 1][2], ts[i][2])}

\* Doubles at, next to and between the literals the score is compared with
UrgencySentimentScores ==
    {Float(r, e) : r \in {Rat(-6, 10), Rat(-5, 10), Rat(-2, 10), RInt(0), Rat(3, 10)},
                   e \in {-1, 0, 1}}

UrgencyNegativeWords == 0..3

\* No rating, one rating, a mean of 5/2 and the best ratings
UrgencyScores ==
    {[k \in Range(ScoreTypes) |-> None],
     [k \in Range(ScoreTypes) |-> IF k = "netheid" THEN Some(1) ELSE None],
     [k \in Range(ScoreTypes) |-> IF k = "netheid" THEN Some(2)
                                  ELSE IF k = "wifi" THEN Some(3) ELSE None],
     [k \in Range(ScoreTypes) |-> Some(5)]}

InitUrgency ==
    /\ extractor = __init__(2, 5)
    /\ last_feedback_list = <<>>
    /\ result = None
    /\ outcome = "idle"
    /\ repeated = FALSE
    /\ stale = FALSE
    /\ \E score \in UrgencySentimentScores, negative_words \in UrgencyNegativeWords,
          scores \in UrgencyScores, topics \in UrgencyTopicLists :
           probe = [kind |-> "urgency",
                    sentiment |-> [sentiment_score |-> score,
                                   negative_words |-> negative_words],
                    scores |-> scores, topics |-> topics, out |-> None]

CalculateUrgency ==
    /\ probe.kind = "urgency"
    /\ probe.out = None
    /\ probe' = [probe EXCEPT !.out =
           Some(calculate_urgency_score(probe.sentiment, probe.scores, probe.topics))]
    /\ UNCHANGED <<extractor, last_feedback_list, result, outcome, repeated, stale>>

NextUrgency == CalculateUrgency

SpecUrgency == InitUrgency /\ [][NextUrgency]_vars

UrgencyDone == probe.kind = "urgency" /\ probe.out # None

\* 10 * relevance of the topic ranked k-th when it is critical
CriticalAddend(topics, k) ==
    IF k <= Len(topics) /\ topics[k][1] \in critical_topics
    THEN RMul(RInt(10), topics[k][2]) ELSE RInt(0)

\* C18: calculate_urgency_score is the clamp to [0, 100] of base + sentiment
\* addend + topic addend + negative-word addend: base 100 - 100 * sum / (5 * count)
\* of the valid ratings, or 50 without any; 30 for a score < -0.5, else 20 for
\* < -0.2, else 10 for < 0, else 0; 10 * relevance for each critical topic among
\* the first three of the list, nothing for one ranked fourth or lower; 15 for
\* three or more negative words, else 10 for two, 5 for one, 0 for none.
C18_VariantAReference ==
    UrgencyDone =>
        LET score == probe.sentiment.sentiment_score
            count == probe.sentiment.negative_words
            base == IF RatedTypes(probe.scores) = {} THEN RInt(50)
                    ELSE RSub(RInt(100), RMul(RInt(20), MeanRating(probe.scores)))
            sentiment_addend == IF FLt(score, Rat(-5, 10)) THEN 30
                                ELSE IF FLt(score, Rat(-2, 10)) THEN 20
                                ELSE IF FLt(score, RInt(0)) THEN 10
                                ELSE 0
            topic_addend == RAdd(CriticalAddend(probe.topics, 1),
                                 RAdd(CriticalAddend(probe.topics, 2),
                                      CriticalAddend(probe.topics, 3)))
            word_addend == IF count >= 3 THEN 15
                           ELSE IF count >= 2 THEN 10
                           ELSE IF count >= 1 THEN 5
                           ELSE 0
            sum == RAdd(RAdd(base, RInt(sentiment_addend)),
                        RAdd(topic_addend, RInt(word_addend)))
            reference == IF RLt(sum, RInt(0)) THEN RInt(0)
                         ELSE IF RLt(RInt(100), sum) THEN RInt(100)
                         ELSE sum
        IN  Val(probe.out) = reference

\* A critical topic ranked fourth behind a critical and two other topics adds
\* nothing: 50 + 20 + 10 * 1/2 + 15
C18_Witness ==
    /\ UrgencyDone
    /\ RatedTypes(probe.scores) = {}
    /\ probe.sentiment = [sentiment_score |-> Float(Rat(-5, 10), 0), negative_words |-> 3]
    /\ Len(probe.topics) = 4
    /\ probe.topics[1][1] = "wifi"
    /\ probe.topics[2][1] \notin critical_topics
    /\ probe.topics[3][1] \notin critical_topics
    /\ probe.topics[4] = <<"netheid", Rat(1, 2)>>
    /\ Val(probe.out) = RInt(90)

-----------------------------------------------------------------------------
(* The analyzer called once on batches longer than the caps of the result lists *)

MaxLargeBatch == 22

\* <<comment, netheid, wifi, ruimte, stilte, algemeen>> of seven kinds of rows,
\* of urgency 100, 40, 50, 25, 0, 80 and 20
LargeRowKinds ==
    <<<<Some(<<"Wifi", "slecht">>), Some(1), Some(1), Some(1), Some(1), Some(1)>>,
      <<None, Some(3), Some(3), Some(3), Some(3), Some(3)>>,
      <<None, None, None, None, None, None>>,
      <<Some(<<>>), Some(4), Some(4), Some(4), Some(3), None>>,
      <<Some(<<"goed">>), Some(5), Some(5), Some(5), Some(5), Some(5)>>,
      <<None, Some(2), Some(2), Some(2), Some(2), Some(2)>>,
      <<None, Some(4), Some(4), Some(4), Some(4), Some(4)>>>>

\* The kinds of the rows of a batch follow this cycle, in which praise is rare
LargeRowPattern == <<1, 2, 3, 4, 6, 2, 3, 4, 6, 1, 5>>

\* Cycles in which most rows have an urgency above 50, of two values, and in
\* which most rows have one below 25, of two values
UrgentRowPattern == <<1, 6, 1, 6, 3, 6, 1, 6, 1, 2, 6>>

PositiveRowPattern == <<5, 7, 5, 7, 4, 7, 5, 7, 5, 2, 7>>

LargeRowPatterns == <<LargeRowPattern, UrgentRowPattern, PositiveRowPattern>>

\* The first cycle is followed forwards or backwards, or one kind is taken
\* throughout; the other cycles are followed forwards
LargeStrides(pattern) ==
    IF pattern = LargeRowPattern THEN {0, 1, Len(pattern) - 1} ELSE {1}

\* n rows with feedback_id 1..n
LargeBatch(n, pattern, stride, offset) ==
    List([i \in 1..n |->
        LET kind == LargeRowKinds[pattern[((stride * i + offset) % Len(pattern)) + 1]]
        IN  Row(i, kind[1], kind[2], kind[3], kind[4], kind[5], kind[6])])

InitLarge ==
    /\ extractor = __init__(1, 5)
    /\ last_feedback_list = <<>>
    /\ result = None
    /\ outcome = "idle"
    /\ repeated = FALSE
    /\ stale = FALSE
    /\ \E n \in 0..MaxLargeBatch, pattern \in Range(LargeRowPatterns) :
       \E stride \in LargeStrides(pattern), offset \in 0..(Len(pattern) - 1) :
           probe = [kind |-> "batch",
                    feedback_list |-> LargeBatch(n, pattern, stride, offset)]

NextLarge == AnalyzeProbed

SpecLarge == InitLarge /\ [][NextLarge]_vars

\* The urgency_score the analysis gives a row
UrgencyOf(feedback) ==
    calculate_urgency_score(
        extract_sentiment(feedback.extra_opmerkingen, ScoresOf(feedback)),
        ScoresOf(feedback),
        detect_topics(preprocess_text(feedback.extra_opmerkingen)))

\* The rows of the latest batch by bucket
RowsAbove(bound) ==
    {i \in 1..Len(last_feedback_list) : RLt(RInt(bound), UrgencyOf(last_feedback_list[i]))}

RowsBelow(bound) ==
    {i \in 1..Len(last_feedback_list) : RLt(UrgencyOf(last_feedback_list[i]), RInt(bound))}

RowsBetween(low, high) ==
    {i \in 1..Len(last_feedback_list) :
        /\ RLe(RInt(low), UrgencyOf(last_feedback_list[i]))
        /\ RLe(UrgencyOf(last_feedback_list[i]), RInt(high))}

\* urgency_distribution counts every row of the batch in its bucket
BucketsCountBatch ==
    LET distribution == Res.urgency_distribution
    IN  /\ DOMAIN distribution = {"onvoldoende", "voldoende", "uitstekend"}
        /\ distribution.onvoldoende = Cardinality(RowsAbove(50))
        /\ distribution.voldoende = Cardinality(RowsBetween(25, 50))
        /\ distribution.uitstekend = Cardinality(RowsBelow(25))
        /\ RowsAbove(50) \cup RowsBetween(25, 50) \cup RowsBelow(25)
               = 1..Len(last_feedback_list)
        /\ distribution.onvoldoende + distribution.voldoende + distribution.uitstekend
               = Res.total_feedback

\* C19: urgency_distribution is a partition of all analysed items of the batch,
\* not only of the 20 in detailed_items: each item is counted in exactly one
\* bucket, 'onvoldoende' for urgency > 50, 'voldoende' for 25 <= urgency <= 50,
\* 'uitstekend' for urgency < 25, and the counts sum to total_feedback.
C19_DistributionPartitionsBatch ==
    Returned => ("urgency_distribution" \in DOMAIN Res /\ BucketsCountBatch)

\* C19 on the batches that hold at least one row
C19_AnalysedBatchPartitioned ==
    (Returned /\ last_feedback_list # <<>>) => BucketsCountBatch

\* More rows than detailed_items holds, all of them counted, every bucket filled,
\* rows of urgency 50 and 25 under 'voldoende'
C19_Witness ==
    /\ Returned
    /\ Len(last_feedback_list) > 20
    /\ Len(Res.detailed_items) = 20
    /\ BucketsCountBatch
    /\ Res.urgency_distribution.onvoldoende > 0
    /\ Res.urgency_distribution.uitstekend > 0
    /\ \E i \in RowsBetween(25, 50) : UrgencyOf(last_feedback_list[i]) = RInt(50)
    /\ \E i \in RowsBetween(25, 50) : UrgencyOf(last_feedback_list[i]) = RInt(25)

\* The rows of the latest batch that detailed_items does not list
RowsLeftOut ==
    {i \in 1..Len(last_feedback_list) :
        \A k \in 1..Len(Res.detailed_items) :
            Res.detailed_items[k].feedback_id # last_feedback_list[i].feedback_id}

\* detailed_items lists min(20, n) distinct rows of the batch with their urgency,
\* by non-increasing urgency, and no row left out outranks a listed one
DetailedItemsTopTwenty ==
    LET items == Res.detailed_items
        n == Len(last_feedback_list)
    IN  /\ Len(items) = IF n < 20 THEN n ELSE 20
        /\ \A k \in 1..Len(items) :
               \E i \in 1..n :
                   /\ last_feedback_list[i].feedback_id = items[k].feedback_id
                   /\ items[k].urgency_score = UrgencyOf(last_feedback_list[i])
        /\ \A k, l \in 1..Len(items) :
               k # l => items[k].feedback_id # items[l].feedback_id
        /\ \A k \in 1..(Len(items) - 1) :
               RLe(items[k + 1].urgency_score, items[k].urgency_score)
        /\ \A i \in RowsLeftOut : \A k \in 1..Len(items) :
               RLe(UrgencyOf(last_feedback_list[i]), items[k].urgency_score)

\* C20: for a batch of n items detailed_items holds exactly min(20, n) items in
\* non-increasing urgency_score order, and no item left out of it has a strictly
\* higher urgency_score than an item inside it.
C20_DetailedItemsTopTwenty ==
    Returned => ("detailed_items" \in DOMAIN Res /\ DetailedItemsTopTwenty)

\* C20 on the batches that hold at least one row
C20_AnalysedBatchTopTwenty ==
    (Returned /\ last_feedback_list # <<>>) => DetailedItemsTopTwenty

\* More than 20 rows of several urgencies: 20 are listed, from a higher to a
\* lower urgency, and a row left out ranks below the last one listed
C20_Witness ==
    /\ Returned
    /\ Len(last_feedback_list) > 20
    /\ DetailedItemsTopTwenty
    /\ RLt(Res.detailed_items[20].urgency_score, Res.detailed_items[1].urgency_score)
    /\ \E i \in RowsLeftOut :
           RLt(UrgencyOf(last_feedback_list[i]), Res.detailed_items[20].urgency_score)

-----------------------------------------------------------------------------
(* The lists of the most urgent and of the most positive items *)

\* The rows of the latest batch that a list of analysed items holds
RowsListed(items) ==
    {i \in 1..Len(last_feedback_list) :
        \E k \in 1..Len(items) :
            items[k].feedback_id = last_feedback_list[i].feedback_id}

\* items holds each of its rows once, with the urgency the analysis gives the row
ListsRowsOnce(items) ==
    /\ Cardinality(RowsListed(items)) = Len(items)
    /\ \A k \in 1..Len(items) :
           \E i \in RowsListed(items) :
               /\ items[k].feedback_id = last_feedback_list[i].feedback_id
               /\ items[k].urgency_score = UrgencyOf(last_feedback_list[i])

Min(a, b) == IF a < b THEN a ELSE b

\* C21: urgent_feedback is the up-to-10 highest-urgency items among those with
\* urgency_score > 50, positive_feedback the up-to-10 lowest-urgency items among
\* those with urgency_score < 25; an item of urgency exactly 50 or exactly 25 is
\* in neither list, and no item is in both.
C21_UrgentAndPositiveLists ==
    Returned =>
        LET urgent == Res.urgent_feedback
            positive == Res.positive_feedback
        IN  /\ ListsRowsOnce(urgent)
            /\ RowsListed(urgent) \subseteq RowsAbove(50)
            /\ Len(urgent) = Min(10, Cardinality(RowsAbove(50)))
            /\ \A i \in RowsAbove(50) \ RowsListed(urgent) : \A k \in 1..Len(urgent) :
                   RLe(UrgencyOf(last_feedback_list[i]), urgent[k].urgency_score)
            /\ ListsRowsOnce(positive)
            /\ RowsListed(positive) \subseteq RowsBelow(25)
            /\ Len(positive) = Min(10, Cardinality(RowsBelow(25)))
            /\ \A i \in RowsBelow(25) \ RowsListed(positive) : \A k \in 1..Len(positive) :
                   RLe(positive[k].urgency_score, UrgencyOf(last_feedback_list[i]))
            /\ \A i \in 1..Len(last_feedback_list) :
                   UrgencyOf(last_feedback_list[i]) \in {RInt(50), RInt(25)} =>
                       i \notin RowsListed(urgent) \cup RowsListed(positive)
            /\ RowsListed(urgent) \cap RowsListed(positive) = {}

\* More than 10 rows below 25, of two urgencies: the 10 listed are the lowest, a
\* row below 25 that is left out ranks above them, and a row of urgency exactly
\* 25 is in neither list
C21_Witness ==
    /\ Returned
    /\ Cardinality(RowsBelow(25)) > 10
    /\ Len(Res.positive_feedback) = 10
    /\ RLt(Res.positive_feedback[10].urgency_score, Res.positive_feedback[1].urgency_score)
    /\ \E i \in RowsBelow(25) \ RowsListed(Res.positive_feedback) :
           RLe(Res.positive_feedback[1].urgency_score, UrgencyOf(last_feedback_list[i]))
    /\ \E i \in 1..Len(last_feedback_list) :
           /\ UrgencyOf(last_feedback_list[i]) = RInt(25)
           /\ i \notin RowsListed(Res.urgent_feedback) \cup RowsListed(Res.positive_feedback)

-----------------------------------------------------------------------------
(* The analyzer called once on batches mixed from a few kinds of rows, so that *)
(* the shares the insight rules compare with their thresholds all occur        *)

MaxMix == 12

\* <<comment, netheid, wifi, ruimte, stilte, algemeen>>: a row on one topic, a
\* row labelled positive, a row labelled negative, a neutral row whose ratings
\* differ by type, a row without comment and ratings, and a row on two topics
\* of different relevance
MixRowKinds ==
    <<<<Some(<<"wifi">>), Some(3), Some(3), Some(3), Some(3), Some(3)>>,
      <<None, Some(5), Some(5), Some(5), Some(5), Some(5)>>,
      <<None, Some(1), Some(1), Some(1), Some(1), Some(1)>>,
      <<None, Some(4), Some(3), Some(3), Some(3), Some(3)>>,
      <<None, None, None, None, None, None>>,
      <<Some(<<"toilet", "koffie", "wifi">>), Some(3), Some(3), Some(3), Some(3), Some(3)>>>>

Repeat(x, n) == [i \in 1..n |-> x]

\* The kinds of the rows of a batch: on_topic rows on one topic, then the extra
\* rows, then skewed rows of the kind skew, the rest being rows of the kind filler
MixKinds(n, on_topic, skew, skewed, extra, filler) ==
    Repeat(1, on_topic) \o extra \o Repeat(skew, skewed)
        \o Repeat(filler, n - on_topic - Len(extra) - skewed)

MixBatch(kinds) ==
    List([i \in 1..Len(kinds) |->
        LET kind == MixRowKinds[kinds[i]]
        IN  Row(i, kind[1], kind[2], kind[3], kind[4], kind[5], kind[6])])

\* The extra rows: none, the row on two topics, or two rows of the sentiment the
\* skewed rows do not have
MixExtras(skew) == {<<>>, <<6>>, <<5 - skew, 5 - skew>>}

InitMix ==
    /\ extractor = __init__(1, 5)
    /\ last_feedback_list = <<>>
    /\ result = None
    /\ outcome = "idle"
    /\ repeated = FALSE
    /\ stale = FALSE
    /\ \E n \in 2..MaxMix, on_topic \in 0..4, skew \in {2, 3}, skewed \in 0..7 :
       \E extra \in MixExtras(skew), filler \in {4, 5} :
           /\ on_topic + Len(extra) + skewed <= n
           /\ skew = 3 => skewed \in 1..5
           /\ filler = 5 => skewed = 0
           /\ probe = [kind |-> "batch",
                       feedback_list |->
                           MixBatch(MixKinds(n, on_topic, skew, skewed, extra, filler))]

NextMix == AnalyzeProbed

SpecMix == InitMix /\ [][NextMix]_vars

\* The topics of an analysed item whose relevance no topic of the item exceeds
MostRelevantTopics(item) ==
    {item.topics[k][1] : k \in {k \in 1..Len(item.topics) :
        \A j \in 1..Len(item.topics) : RLe(item.topics[j][2], item.topics[k][2])}}

\* C22: clustering assigns every analysed item to exactly one cluster, that of a
\* topic of maximal relevance among the item's topics or 'algemeen' when it has
\* none; the reported cluster sizes sum to total_feedback and no reported
\* cluster is empty.
C22_ClustersPartitionItems ==
    Returned =>
        LET items == Res.detailed_items
            clusters == Res.clusters
            names == {clusters[k][1] : k \in 1..Len(clusters)}
        IN  /\ Len(items) = Res.total_feedback
            /\ Cardinality(names) = Len(clusters)
            /\ \A k \in 1..Len(items) :
                   /\ ClusterOf(items[k]) \in names
                   /\ IF items[k].topics = <<>> THEN ClusterOf(items[k]) = "algemeen"
                      ELSE ClusterOf(items[k]) \in MostRelevantTopics(items[k])
            /\ \A c \in 1..Len(clusters) :
                   /\ clusters[c][2] =
                          Cardinality({k \in 1..Len(items) : ClusterOf(items[k]) = clusters[c][1]})
                   /\ clusters[c][2] > 0
            /\ SumSeq(List([c \in 1..Len(clusters) |-> clusters[c][2]])) = Res.total_feedback

\* Three clusters, one of them 'algemeen', and an item with two topics of
\* different relevance
C22_Witness ==
    /\ Returned
    /\ Len(Res.clusters) = 3
    /\ \E c \in 1..3 : Res.clusters[c][1] = "algemeen" /\ Res.clusters[c][2] > 1
    /\ \E k \in 1..Len(Res.detailed_items) :
           /\ Len(Res.detailed_items[k].topics) = 2
           /\ MostRelevantTopics(Res.detailed_items[k]) = {"faciliteiten"}

-----------------------------------------------------------------------------
(* The insight rules on mixed batches *)

\* The insights of the given kinds in the latest result
InsightsOf(kinds) ==
    LET OfKind(insight) == insight.kind \in kinds
    IN  SelectSeq(Res.key_insights, OfKind)

\* The number of analysed items in which a topic was detected
ItemsOnTopic(topic) ==
    Cardinality({k \in 1..Len(Res.detailed_items) :
        \E t \in 1..Len(Res.detailed_items[k].topics) :
            Res.detailed_items[k].topics[t][1] = topic})

\* C23: in a batch of at least 2 items the dominant-topic insight is reported
\* only if the number of items in which that topic was detected is at least 2
\* (fewer than 10 items) or at least 25% of the batch (10 items or more).
C23_TopicInsightClearsThreshold ==
    (Returned /\ Res.total_feedback >= 2) =>
        \A k \in 1..Len(InsightsOf({"top_topic"})) :
            LET detected == ItemsOnTopic(InsightsOf({"top_topic"})[k].topic)
            IN  IF Res.total_feedback < 10 THEN detected >= 2
                ELSE 100 * detected >= 25 * Res.total_feedback

\* The dominant-topic insight on a batch of 10 or more items of which fewer
\* than 25% carry the topic
C23_Witness ==
    /\ Returned
    /\ Res.total_feedback >= 10
    /\ Len(InsightsOf({"top_topic"})) = 1
    /\ 100 * ItemsOnTopic(InsightsOf({"top_topic"})[1].topic) < 25 * Res.total_feedback

\* What the code ensures of the dominant-topic insight: the topic is carried by
\* at least 2 items and by at least floor(total / 4) items
C23_TopicInsightClearsFloor ==
    (Returned /\ Res.total_feedback >= 2) =>
        \A k \in 1..Len(InsightsOf({"top_topic"})) :
            LET detected == ItemsOnTopic(InsightsOf({"top_topic"})[k].topic)
            IN  /\ detected >= 2
                /\ Res.total_feedback >= 10 => detected >= Res.total_feedback \div 4

\* The size of the largest reported cluster other than 'algemeen', 0 when there
\* is none
LargestRealCluster ==
    LET sizes == {Res.clusters[c][2] : c \in {c \in 1..Len(Res.clusters) :
                                                Res.clusters[c][1] # "algemeen"}}
    IN  IF sizes = {} THEN 0 ELSE CHOOSE size \in sizes : \A other \in sizes : other <= size

\* C24: in a batch of at least 2 items the dominant-cluster insight is reported
\* exactly when the largest cluster other than 'algemeen' has at least 2 items
\* (fewer than 10 items) or holds more than 40% of the batch (10 items or more);
\* a cluster holding exactly 40% of a batch of 10 or more is not reported.
C24_ClusterInsightAboveThreshold ==
    (Returned /\ Res.total_feedback >= 2) =>
        /\ Len(InsightsOf({"cluster"})) <= 1
        /\ Len(InsightsOf({"cluster"})) = 1 <=>
               IF Res.total_feedback < 10 THEN LargestRealCluster >= 2
               ELSE 100 * LargestRealCluster > 40 * Res.total_feedback

\* The dominant-cluster insight on a batch of 10 or more items of which that
\* cluster holds exactly 40%
C24_Witness ==
    /\ Returned
    /\ Res.total_feedback >= 10
    /\ 100 * LargestRealCluster = 40 * Res.total_feedback
    /\ Len(InsightsOf({"cluster"})) = 1
    /\ InsightsOf({"cluster"})[1].size = LargestRealCluster

\* What the code does: the insight is reported exactly when the largest cluster
\* other than 'algemeen' has at least 2 items and at least floor(0.4 * total)
C24_ClusterInsightAtFloor ==
    (Returned /\ Res.total_feedback >= 2) =>
        /\ Len(InsightsOf({"cluster"})) <= 1
        /\ Len(InsightsOf({"cluster"})) = 1 <=>
               /\ LargestRealCluster >= 2
               /\ Res.total_feedback >= 10 =>
                      LargestRealCluster >= (4 * Res.total_feedback) \div 10

\* The number of analysed items with a sentiment label
Labelled(label) ==
    IF label \in DOMAIN Res.sentiment_distribution
    THEN Res.sentiment_distribution[label] ELSE 0

PositiveSkew == 100 * Labelled("positief") > 60 * Res.total_feedback

NegativeSkew == 100 * Labelled("negatief") > 40 * Res.total_feedback

\* C25: in a batch of at least 2 items a sentiment-skew insight is reported
\* exactly when the share of items labelled positive is > 60% or the share
\* labelled negative is > 40%; at most one sentiment insight is emitted, and a
\* share of exactly 60% positive or exactly 40% negative emits none.
C25_SentimentInsightOnSkew ==
    (Returned /\ Res.total_feedback >= 2) =>
        /\ Len(InsightsOf({"positive", "negative"})) <= 1
        /\ Len(InsightsOf({"positive", "negative"})) = 1 <=> (PositiveSkew \/ NegativeSkew)
        /\ Len(InsightsOf({"positive"})) = 1 <=> PositiveSkew
        /\ Len(InsightsOf({"negative"})) = 1 <=> NegativeSkew

\* A batch of which exactly 60% is labelled positive and exactly 40% negative:
\* no sentiment insight
C25_Witness ==
    /\ Returned
    /\ Res.total_feedback >= 2
    /\ 100 * Labelled("positief") = 60 * Res.total_feedback
    /\ 100 * Labelled("negatief") = 40 * Res.total_feedback
    /\ InsightsOf({"positive", "negative"}) = <<>>

\* A batch of which more than 40% is labelled negative: the insight is given
C25_NegativeSkewReported ==
    /\ Returned
    /\ NegativeSkew
    /\ Len(InsightsOf({"negative"})) = 1

RuleKinds == {"top_topic", "positive", "negative", "low_score", "high_score", "cluster", "spread"}

FallbackKinds == {"best_score", "worst_score", "received"}

\* The rating-extreme rule fired: a rating type of mean below 2.5 or above 4
ExtremeMean ==
    \E k \in 1..Len(Res.score_statistics) :
        \/ RLt(Res.score_statistics[k][2].mean, Rat(5, 2))
        \/ RLt(RInt(4), Res.score_statistics[k][2].mean)

\* The variance rule fired: 4 items or more and a rating type of standard
\* deviation above 1.5
WideSpread ==
    /\ Res.total_feedback >= 4
    /\ \E k \in 1..Len(Res.score_statistics) :
           RLt(Rat(9, 4), Res.score_statistics[k][2].variance)

NoRuleFired ==
    /\ InsightsOf({"top_topic", "cluster"}) = <<>>
    /\ ~PositiveSkew
    /\ ~NegativeSkew
    /\ ~ExtremeMean
    /\ ~WideSpread

\* The fallback entries the statistics call for: the first rating type of the
\* highest mean, then the first of the lowest mean when the means differ, or
\* the generic message when no rating type has statistics
ExpectedFallback ==
    LET stats == Res.score_statistics
        Highest(k) == \A j \in 1..Len(stats) : RLe(stats[j][2].mean, stats[k][2].mean)
        Lowest(k) == \A j \in 1..Len(stats) : RLe(stats[k][2].mean, stats[j][2].mean)
        FirstOf(P(_)) == CHOOSE k \in 1..Len(stats) : P(k) /\ \A j \in 1..(k - 1) : ~P(j)
        best == FirstOf(Highest)
        worst == FirstOf(Lowest)
    IN  IF stats = <<>> THEN <<[kind |-> "received", total |-> Res.total_feedback]>>
        ELSE <<[kind |-> "best_score", score_type |-> stats[best][1], mean |-> stats[best][2].mean]>>
             \o (IF worst # best
                 THEN <<[kind |-> "worst_score", score_type |-> stats[worst][1],
                         mean |-> stats[worst][2].mean]>>
                 ELSE <<>>)

\* C26: for every batch of at least 2 items key_insights is non-empty, and the
\* fallback entries appear exactly when none of the topic, sentiment,
\* rating-extreme, cluster and variance rules fired: then the best rating type
\* by mean is reported, plus the worst when it is a different type, or the
\* single generic message when no item carries any rating.
C26_FallbackWhenNoRuleFired ==
    (Returned /\ Res.total_feedback >= 2) =>
        /\ Res.key_insights # <<>>
        /\ InsightsOf(FallbackKinds) # <<>> <=> NoRuleFired
        /\ InsightsOf(FallbackKinds) # <<>> => InsightsOf(RuleKinds) = <<>>
        /\ NoRuleFired => Res.key_insights = ExpectedFallback

\* No rule fired on a batch whose rating types differ in mean: the best and the
\* worst type are reported
C26_Witness ==
    /\ Returned
    /\ Res.total_feedback >= 2
    /\ NoRuleFired
    /\ Len(Res.key_insights) = 2
    /\ Res.key_insights[1].kind = "best_score"
    /\ Res.key_insights[2].kind = "worst_score"
    /\ Res.key_insights[1].score_type # Res.key_insights[2].score_type

\* No rule fired and no item carries a rating: the generic message
C26_GenericMessage ==
    /\ Returned
    /\ Res.total_feedback >= 2
    /\ Res.score_statistics = <<>>
    /\ Res.key_insights = <<[kind |-> "received", total |-> Res.total_feedback]>>

\* No rule fired and all rating types have the same mean: the best type alone
C26_BestAlone ==
    /\ Returned
    /\ Res.total_feedback >= 2
    /\ NoRuleFired
    /\ Len(Res.key_insights) = 1
    /\ Res.key_insights[1].kind = "best_score"

-----------------------------------------------------------------------------
(* The urgency of one comment under a rating mapping, and again after one of *)
(* its ratings was replaced                                                  *)

\* Comments without words, of one sentiment word, and of a keyword of a critical
\* topic or a second sentiment word next to a negative word
RateTexts ==
    {None, Some(<<>>), Some(<<"goed">>), Some(<<"slecht">>), Some(<<"Wifi", "slecht">>),
     Some(<<"vies", "slecht">>), Some(<<"goed", "slecht">>)}

RateScores ==
    [netheid : OptRatings, wifi : OptRatings,
     ruimte : {None, Some(3)}, stilte : {None}, algemeen : EdgeRatings]

\* The urgency the second loop of analyze_feedback_batch gives a comment with
\* its ratings
ItemUrgency(text, scores) ==
    calculate_urgency_score(extract_sentiment(text, scores), scores,
                            detect_topics(preprocess_text(text)))

InitRate ==
    /\ extractor = __init__(1, 5)
    /\ last_feedback_list = <<>>
    /\ result = None
    /\ outcome = "idle"
    /\ repeated = FALSE
    /\ stale = FALSE
    /\ \E text \in RateTexts, scores \in RateScores :
           probe = [kind |-> "rate", text |-> text, scores |-> scores,
                    out |-> None, earlier |-> None]

\* The urgency of the comment under its ratings
CalculateRated ==
    /\ probe.kind = "rate"
    /\ probe.out = None
    /\ probe' = [probe EXCEPT !.out = Some(ItemUrgency(probe.text, probe.scores))]
    /\ UNCHANGED <<extractor, last_feedback_list, result, outcome, repeated, stale>>

\* The urgency of the same comment after one rating was replaced by another
\* value of the domain, the rated types staying the same
Rerate(score_type, rating) ==
    /\ probe.kind = "rate"
    /\ probe.out # None
    /\ probe.earlier = None
    /\ probe.scores[score_type] # None
    /\ probe.scores[score_type] # Some(rating)
    /\ LET scores == [probe.scores EXCEPT ![score_type] = Some(rating)]
       IN  probe' = [probe EXCEPT
                        !.scores = scores,
                        !.out = Some(ItemUrgency(probe.text, scores)),
                        !.earlier = Some([score_type |-> score_type,
                                          scores |-> probe.scores,
                                          out |-> Val(probe.out)])]
    /\ UNCHANGED <<extractor, last_feedback_list, result, outcome, repeated, stale>>

NextRate ==
    \/ CalculateRated
    \/ \E score_type \in Range(ScoreTypes), rating \in Ratings : Rerate(score_type, rating)

SpecRate == InitRate /\ [][NextRate]_vars

Rerated == probe.kind = "rate" /\ probe.earlier # None

\* The rating that was replaced, and the rating that replaced it
RatingBefore == Val(Val(probe.earlier).scores[Val(probe.earlier).score_type])

RatingAfter == Val(probe.scores[Val(probe.earlier).score_type])

\* C27: urgency is monotone in the ratings: for a fixed comment and a fixed set
\* of rated types, replacing one rating by a higher value in 1..5 never
\* increases urgency_score, and replacing it by a lower value never decreases it.
C27_UrgencyMonotoneInRatings ==
    Rerated =>
        /\ RatingAfter > RatingBefore => RLe(Val(probe.out), Val(probe.earlier).out)
        /\ RatingAfter < RatingBefore => RLe(Val(probe.earlier).out, Val(probe.out))

\* A comment with a negative word whose urgency drops when a rating is raised
\* but not by the ratings' share alone: the sentiment addend changes too
C27_Witness ==
    /\ Rerated
    /\ preprocess_text(probe.text) # <<>>
    /\ RatingAfter > RatingBefore
    /\ RLt(Val(probe.out), Val(probe.earlier).out)
    /\ RSub(Val(probe.earlier).out, Val(probe.out)) #
           RSub(calculate_basic_score(probe.scores),
                calculate_basic_score(Val(probe.earlier).scores))

\* A raised rating that leaves the urgency at the upper clamp
C27_ClampedUnchanged ==
    /\ Rerated
    /\ RatingAfter > RatingBefore
    /\ Val(probe.out) = RInt(100)
    /\ Val(probe.earlier).out = RInt(100)

-----------------------------------------------------------------------------
(* The flag negative_comments_detected *)

\* C28: an analysed item with an empty or null comment is never flagged
\* negative_comments_detected, whatever its ratings.
C28_NoCommentNeverFlagged ==
    Returned =>
        \A k \in 1..Len(Res.detailed_items) :
            Res.detailed_items[k].full_text \in {None, Some(<<>>)} =>
                ~Res.detailed_items[k].negative_comments_detected

\* An item without comment that is flagged: its ratings alone put the sentiment
\* score below -0.2, and the sentiment addend of 20 or 30 exceeds the margin of 15
C28_Witness ==
    /\ Returned
    /\ Len(Res.detailed_items) = 1
    /\ Res.detailed_items[1].full_text = None
    /\ Res.detailed_items[1].negative_comments_detected
    /\ FLt(Res.detailed_items[1].sentiment.sentiment_score, Rat(-2, 10))
    /\ Res.detailed_items[1].sentiment.negative_words = 0
    /\ Res.detailed_items[1].topics = <<>>

\* The same with the empty string for a comment
C28_EmptyCommentFlagged ==
    /\ Returned
    /\ Len(Res.detailed_items) = 1
    /\ Res.detailed_items[1].full_text = Some(<<>>)
    /\ Res.detailed_items[1].negative_comments_detected

-----------------------------------------------------------------------------
(* What a call of analyze_feedback_batch writes *)

\* C29: analyze_feedback_batch leaves its input unchanged: after the call the
\* batch list has the same items in the same order and every feedback
\* dictionary the same keys and values as before; the only analyzer state the
\* call writes is idf_scores.
C29_CallWritesIdfScoresOnly ==
    [][outcome' = "returned" =>
          /\ last_feedback_list' = probe.feedback_list
          /\ probe' = probe
          /\ \A attribute \in DOMAIN extractor \ {"idf_scores"} :
                 extractor'[attribute] = extractor[attribute]]_vars

\* A call on two rows with comments has returned and has written idf_scores
C29_Witness ==
    /\ Returned
    /\ Len(last_feedback_list) >= 2
    /\ \A k \in 1..Len(last_feedback_list) :
           preprocess_text(last_feedback_list[k].extra_opmerkingen) # <<>>
    /\ extractor.idf_scores # EmptyDict
    /\ extractor.vocabulary = EmptyDict

-----------------------------------------------------------------------------
(* Items of equal urgency in the lists of the result *)

\* The place in the latest batch of the row an analysed item was made from
RowOf(item) ==
    CHOOSE i \in 1..Len(last_feedback_list) :
        last_feedback_list[i].feedback_id = item.feedback_id

\* Items of equal urgency stand in items in the order of their rows
TiesInBatchOrder(items) ==
    \A a, b \in 1..Len(items) :
        (a < b /\ items[a].urgency_score = items[b].urgency_score) =>
            RowOf(items[a]) < RowOf(items[b])

\* The rows among candidates that items leaves out although an item of the same
\* urgency is listed
TiedRowsLeftOut(items, candidates) ==
    {i \in candidates \ RowsListed(items) :
        \E k \in 1..Len(items) : items[k].urgency_score = UrgencyOf(last_feedback_list[i])}

\* Of the rows tied at a cap the listed ones precede the rows left out
EarlierTiesSurvive(items, candidates) ==
    \A i \in TiedRowsLeftOut(items, candidates) : \A k \in 1..Len(items) :
        items[k].urgency_score = UrgencyOf(last_feedback_list[i]) => RowOf(items[k]) < i

\* Of the rows tied at a cap the listed ones follow the rows left out
LaterTiesSurvive(items, candidates) ==
    \A i \in TiedRowsLeftOut(items, candidates) : \A k \in 1..Len(items) :
        items[k].urgency_score = UrgencyOf(last_feedback_list[i]) => RowOf(items[k]) > i

\* C30: ties in urgency are broken by input order: any two items of equal
\* urgency_score appear in detailed_items, urgent_feedback and
\* positive_feedback in the same relative order as in the input batch, so that
\* which of several items of equal urgency survives the caps of 20 and 10 is
\* determined by batch order alone: the earlier rows in detailed_items and
\* urgent_feedback, the later rows in positive_feedback.
C30_TiesInBatchOrder ==
    Returned =>
        /\ "detailed_items" \in DOMAIN Res =>
               /\ TiesInBatchOrder(Res.detailed_items)
               /\ EarlierTiesSurvive(Res.detailed_items, 1..Len(last_feedback_list))
        /\ TiesInBatchOrder(Res.urgent_feedback)
        /\ EarlierTiesSurvive(Res.urgent_feedback, RowsAbove(50))
        /\ TiesInBatchOrder(Res.positive_feedback)
        /\ LaterTiesSurvive(Res.positive_feedback, RowsBelow(25))

\* Rows of equal urgency on both sides of the cap of 20 and of the cap of 10 of
\* urgent_feedback, between rows of other urgencies
C30_Witness ==
    /\ Returned
    /\ Len(last_feedback_list) > 20
    /\ Len(Res.detailed_items) = 20
    /\ TiedRowsLeftOut(Res.detailed_items, 1..Len(last_feedback_list)) # {}
    /\ Len(Res.urgent_feedback) = 10
    /\ TiedRowsLeftOut(Res.urgent_feedback, RowsAbove(50)) # {}
    /\ RLt(Res.urgent_feedback[10].urgency_score, Res.urgent_feedback[1].urgency_score)

\* Rows of equal urgency on both sides of the cap of positive_feedback
C30_PositiveTieAtCap ==
    /\ Returned
    /\ Len(Res.positive_feedback) = 10
    /\ TiedRowsLeftOut(Res.positive_feedback, RowsBelow(25)) # {}
    /\ RLt(Res.positive_feedback[10].urgency_score, Res.positive_feedback[1].urgency_score)

=============================================================================
